-------------------------- MODULE MCDayPromotions --------------------------
(* Instances of DayPromotions for TLC: a lamp in a folder below the folder of
   a pan; a discount on the lamp and the upper folder, which may change. *)
EXTENDS DayPromotions

CONSTANTS lamp, pan, lamps, home, spring

GoodsCat == [g \in {lamp, pan} |-> IF g = lamp THEN lamps ELSE home]
Prices   == [g \in {lamp, pan} |-> IF g = lamp THEN 1000 ELSE 4]

Sale   == [active |-> TRUE, percent |-> 20, goods |-> {lamp}, cats |-> {home}]
Resale == [active |-> TRUE, percent |-> 10, goods |-> {}, cats |-> {lamps}]
SaleOrResale == [d \in {spring} |-> {Sale, Resale}]

Nested   == [c \in {lamps, home} |-> IF c = lamps THEN home ELSE NoCat]
Flat     == [c \in {lamps, home} |-> NoCat]
Fresh    == {Flat}
EachAlone == {{lamp}, {pan}}
Together == {{lamp, pan}}
=============================================================================
