--------------------------- MODULE AccountsProofs ---------------------------
(***************************************************************************)
(* Proofs about one account: the types, that an accepted code does not come *)
(* back, and that the row keeps the last edits.  The inductive invariant   *)
(* says of every goroutine what it may rely on between two statements.     *)
(***************************************************************************)
EXTENDS Accounts, FiniteSetTheorems, TLAPS

(* Until it is registered the row is empty. *)
AbsentOrThere == user.exists \/ user = Absent

(* A goroutine past the first read of the row works on a row that is there. *)
WorksOnRow ==
  \A s \in Session :
    req[s].step \in {"save", "confirm", "forgive", "read", "write", "clear"} => user.exists

(* The code a goroutine holds: something typed when it is looked up, a code of the row
   once it was found. *)
HoldsCode ==
  \A s \in Session :
    /\ At(s, "check") => req[s].code # NoCode /\ req[s].kind \in {"verify", "reset"}
    /\ At(s, "read") => req[s].kind = "reset"
    /\ \/ req[s].step \in {"confirm", "read", "clear"}
       \/ req[s].step \in {"forgive", "write"} /\ req[s].kind = "reset"
       => req[s].code \in Code

(* A goroutine about to write back holds a row whose other column is as it was read,
   unless it has been overtaken. *)
HoldsRow ==
  \A s \in Session : At(s, "write") =>
    /\ req[s].row \in Held
    /\ req[s].kind \in {"reset", "profile"}
    /\ req[s].stale \/ IF req[s].kind = "profile"
                       THEN req[s].row.password = user.password
                       ELSE req[s].row.phone = user.phone

IInv ==
  /\ TypeOK /\ UsedIsGone /\ EditsKept
  /\ AbsentOrThere /\ WorksOnRow /\ HoldsCode /\ HoldsRow

-----------------------------------------------------------------------------
LEMMA InitInv == Init => IInv
  <1> SUFFICES ASSUME Init PROVE IInv OBVIOUS
  <1> USE AccountsAssumption DEF Init
  <1>1. TypeOK
    BY DEF TypeOK, Row, Request, Held, Idle, Absent
  <1>2. UsedIsGone /\ EditsKept /\ AbsentOrThere
    BY DEF UsedIsGone, EditsKept, AbsentOrThere, Absent
  <1>3. WorksOnRow /\ HoldsCode /\ HoldsRow
    BY DEF WorksOnRow, HoldsCode, HoldsRow, At, Idle
  <1> QED BY <1>1, <1>2, <1>3 DEF IInv

(* What replacing the request of one goroutine must show. *)
LEMMA HoldInv ==
  ASSUME IInv, NEW s \in Session,
         NEW kind \in {"none", "verify", "reset"},
         NEW step \in {"idle", "insert", "save", "check", "count", "block", "confirm",
                       "forgive", "read", "clear"},
         NEW c \in Code \cup {Wrong, NoCode},
         Hold(s, kind, step, c),
         step = "check" => c # NoCode /\ kind # "none",
         step = "read" => kind = "reset",
         step \in {"confirm", "read", "clear"} \/ (step = "forgive" /\ kind = "reset")
           => c \in Code
  PROVE  /\ req' \in [Session -> Request]
         /\ req'[s] = [Idle EXCEPT !.kind = kind, !.step = step, !.code = c]
         /\ \A x \in Session \ {s} : req'[x] = req[x]
         /\ HoldsCode'
  <1>1. req \in [Session -> Request]
    BY DEF IInv, TypeOK
  <1>2. req'[s] = [Idle EXCEPT !.kind = kind, !.step = step, !.code = c]
    BY <1>1 DEF Hold
  <1>3. \A x \in Session \ {s} : req'[x] = req[x]
    BY <1>1 DEF Hold
  <1>4. [Idle EXCEPT !.kind = kind, !.step = step, !.code = c] \in Request
    BY DEF Idle, Request
  <1>5. req' \in [Session -> Request]
    BY <1>1, <1>4 DEF Hold
  <1>6. HoldsCode'
    <2> SUFFICES ASSUME NEW x \in Session
                 PROVE  /\ req'[x].step = "check" =>
                             req'[x].code # NoCode /\ req'[x].kind \in {"verify", "reset"}
                        /\ req'[x].step = "read" => req'[x].kind = "reset"
                        /\ \/ req'[x].step \in {"confirm", "read", "clear"}
                           \/ req'[x].step \in {"forgive", "write"} /\ req'[x].kind = "reset"
                           => req'[x].code \in Code
      BY DEF HoldsCode, At
    <2>1. CASE x = s
      <3>1. req'[s].step = step /\ req'[s].kind = kind /\ req'[s].code = c
        BY <1>2 DEF Idle
      <3> QED BY <2>1, <3>1
    <2>2. CASE x # s
      BY <2>2, <1>3 DEF IInv, HoldsCode, At
    <2> QED BY <2>1, <2>2
  <1> QED BY <1>2, <1>3, <1>5, <1>6

Steps == {"idle", "insert", "save", "check", "count", "block", "confirm",
          "forgive", "read", "clear"}

OnRow == {"save", "confirm", "forgive", "read", "write", "clear"}

(* What the counters of Redis and the histories of numbers must keep. *)
CountersOK ==
  /\ attempts \in Nat /\ window \in {Forever} \cup 0..WindowTTL
  /\ attempts = 0 <=> window = 0
  /\ tries \in Nat /\ faults \in 0..MaxFaults

(* A step that moves one goroutine on and leaves the row alone. *)
LEMMA QuietInv ==
  ASSUME IInv, NEW s \in Session, NEW kind \in {"none", "verify", "reset"},
         NEW step \in Steps, NEW c \in Code \cup {Wrong, NoCode},
         Hold(s, kind, step, c),
         step = "check" => c # NoCode /\ kind # "none",
         step = "read" => kind = "reset",
         step \in {"confirm", "read", "clear"} \/ (step = "forgive" /\ kind = "reset")
           => c \in Code,
         step \in OnRow => user.exists,
         UNCHANGED <<user, used, acked>>, CountersOK'
  PROVE  IInv'
  <1>1. /\ req' \in [Session -> Request]
        /\ req'[s] = [Idle EXCEPT !.kind = kind, !.step = step, !.code = c]
        /\ \A x \in Session \ {s} : req'[x] = req[x]
        /\ HoldsCode'
    BY HoldInv DEF Steps
  <1>2. req'[s].step = step
    BY <1>1 DEF Idle
  <1>3. TypeOK'
    BY <1>1 DEF IInv, TypeOK, CountersOK
  <1>4. UsedIsGone' /\ EditsKept' /\ AbsentOrThere'
    BY DEF IInv, UsedIsGone, EditsKept, AbsentOrThere
  <1>5. WorksOnRow'
    BY <1>1, <1>2 DEF IInv, WorksOnRow, OnRow
  <1>6. HoldsRow'
    BY <1>1, <1>2 DEF IInv, HoldsRow, At, Steps
  <1> QED BY <1>1, <1>3, <1>4, <1>5, <1>6 DEF IInv

(* A step that clears the code. *)
LEMMA ClearInv ==
  ASSUME IInv, NEW s \in Session, NEW step \in {"idle", "forgive", "count"},
         Hold(s, "none", step, NoCode),
         user.exists, user' = Cleared,
         used' \in SUBSET Code,
         UNCHANGED acked, CountersOK'
  PROVE  IInv'
  <1> USE AccountsAssumption
  <1>1. /\ req' \in [Session -> Request]
        /\ req'[s] = [Idle EXCEPT !.kind = "none", !.step = step, !.code = NoCode]
        /\ \A x \in Session \ {s} : req'[x] = req[x]
        /\ HoldsCode'
    <2>1. /\ step \in {"idle", "insert", "save", "check", "count", "block", "confirm",
                       "forgive", "read", "clear"}
          /\ step # "check" /\ step # "read" /\ step \notin {"confirm", "read", "clear"}
      OBVIOUS
    <2>2. "none" \in {"none", "verify", "reset"} /\ ~ (step = "forgive" /\ "none" = "reset")
      OBVIOUS
    <2>3. NoCode \in Code \cup {Wrong, NoCode}
      OBVIOUS
    <2> QED BY HoldInv, <2>1, <2>2, <2>3, Zenon
  <1>2. req'[s].step = step
    BY <1>1 DEF Idle
  <1>3. user \in Row
    BY DEF IInv, TypeOK
  <1>4. /\ user' \in Row /\ user'.exists /\ user'.code = NoCode
        /\ user'.password = user.password /\ user'.phone = user.phone
    <2>1. 0 \in 0..CodeTTL
      OBVIOUS
    <2>2. user' \in Row
      BY <1>3, <2>1 DEF Cleared, Row
    <2> QED BY <1>3, <2>2 DEF Cleared, Row
  <1>5. TypeOK'
    BY <1>1, <1>4 DEF IInv, TypeOK, CountersOK
  <1>6. UsedIsGone' /\ AbsentOrThere'
    <2>1. NoCode \notin used'
      OBVIOUS
    <2> QED BY <1>4, <2>1 DEF UsedIsGone, AbsentOrThere
  <1>7. EditsKept'
    <2>1. DOMAIN acked = {"password", "phone"}
      BY DEF IInv, TypeOK
    <2> QED BY <2>1, <1>4 DEF IInv, EditsKept
  <1>8. WorksOnRow'
    BY <1>1, <1>2, <1>4 DEF IInv, WorksOnRow
  <1>9. HoldsRow'
    <2> SUFFICES ASSUME NEW x \in Session, req'[x].step = "write"
                 PROVE  /\ req'[x].row \in Held
                        /\ req'[x].kind \in {"reset", "profile"}
                        /\ req'[x].stale \/ IF req'[x].kind = "profile"
                                            THEN req'[x].row.password = user'.password
                                            ELSE req'[x].row.phone = user'.phone
      BY DEF HoldsRow, At
    <2>1. x # s
      BY <1>2
    <2>2. req'[x] = req[x]
      BY <1>1, <2>1
    <2> QED BY <2>2, <1>4 DEF IInv, HoldsRow, At
  <1> QED BY <1>1, <1>5, <1>6, <1>7, <1>8, <1>9 DEF IInv

(* The values a goroutine finds in the fields of its request. *)
LEMMA RequestFields ==
  ASSUME IInv, NEW s \in Session
  PROVE  /\ req \in [Session -> Request] /\ req[s] \in Request
         /\ req[s].code \in Code \cup {Wrong, NoCode}
         /\ req[s].kind \in {"none", "verify", "reset", "profile"}
         /\ req[s].stale \in BOOLEAN
  BY DEF IInv, TypeOK, Request

-----------------------------------------------------------------------------
(* The requests for a code, and the steps around it that leave the row alone. *)

LEMMA RowFacts ==
  ASSUME IInv
  PROVE  /\ user \in Row /\ used \subseteq Code /\ user.code \notin used
         /\ user.verified => user.exists
         /\ CountersOK
  <1>1. user = Absent => ~user.verified
    BY DEF Absent
  <1>2. user.code \in Code \cup {NoCode}
    BY DEF IInv, TypeOK, Row
  <1> QED BY <1>1, <1>2 DEF IInv, TypeOK, UsedIsGone, AbsentOrThere, CountersOK

LEMMA AskInv ==
  ASSUME IInv, NEW s \in Session,
         Register(s) \/ ResendVerificationCode(s) \/ Login(s) \/ ForgotPassword(s)
  PROVE  IInv'
  <1> USE DEF Go
  <1>0. CountersOK'
    BY RowFacts DEF Register, ResendVerificationCode, Login, ForgotPassword, CountersOK,
                    rate, history
  <1>1. \E step \in {"save", "insert"} :
          /\ Hold(s, "none", step, NoCode)
          /\ step = "save" => user.exists
          /\ UNCHANGED <<user, used, acked>>
    BY DEF Register, ResendVerificationCode, Login, ForgotPassword, Found, rate, history
  <1>2. PICK step \in {"save", "insert"} :
          /\ Hold(s, "none", step, NoCode)
          /\ step = "save" => user.exists
          /\ UNCHANGED <<user, used, acked>>
    BY <1>1
  <1>3. /\ step \in Steps /\ step # "check" /\ step \notin {"confirm", "read", "clear"}
        /\ step # "forgive" /\ (step \in OnRow => user.exists)
    BY <1>2 DEF Steps, OnRow
  <1>4. "none" \in {"none", "verify", "reset"} /\ NoCode \in Code \cup {Wrong, NoCode}
    OBVIOUS
  <1> QED BY <1>0, <1>2, <1>3, <1>4, QuietInv, Zenon

LEMMA EnterInv ==
  ASSUME IInv, NEW s \in Session, NEW kind \in {"verify", "reset"}, EnterCode(s, kind)
  PROVE  IInv'
  <1> USE AccountsAssumption DEF Go
  <1>0. CountersOK'
    BY RowFacts DEF EnterCode, CountersOK, history
  <1>1. user.code \in Code \cup {NoCode}
    BY RowFacts DEF Row
  <1>2. UNCHANGED <<user, used, acked>>
    BY DEF EnterCode, history
  <1>3. PICK c \in {user.code, Wrong} \ {NoCode} :
          Hold(s, kind, "check", c) \/ Hold(s, "none", "block", NoCode)
    BY DEF EnterCode
  <1>4. CASE Hold(s, kind, "check", c)
    <2>1. /\ "check" \in Steps /\ "check" \notin OnRow
          /\ "check" \notin {"confirm", "read", "clear"} /\ "check" # "forgive"
      BY DEF Steps, OnRow
    <2>2. /\ c \in Code \cup {Wrong, NoCode} /\ c # NoCode
          /\ kind \in {"none", "verify", "reset"} /\ kind # "none"
      BY <1>1
    <2> QED BY <1>0, <1>2, <1>4, <2>1, <2>2, QuietInv, Zenon
  <1>5. CASE Hold(s, "none", "block", NoCode)
    <2>1. /\ "block" \in Steps /\ "block" \notin OnRow /\ "block" # "check"
          /\ "block" \notin {"confirm", "read", "clear"} /\ "block" # "forgive"
      BY DEF Steps, OnRow
    <2>2. NoCode \in Code \cup {Wrong, NoCode} /\ "none" \in {"none", "verify", "reset"}
      OBVIOUS
    <2> QED BY <1>0, <1>2, <1>5, <2>1, <2>2, QuietInv, Zenon
  <1> QED BY <1>3, <1>4, <1>5

LEMMA LookUpInv ==
  ASSUME IInv, NEW s \in Session, GetByEmailAndCode(s)
  PROVE  IInv'
  <1> USE AccountsAssumption DEF Go
  <1> DEFINE kind == req[s].kind  c == req[s].code
             step == IF kind = "verify" THEN "confirm" ELSE "forgive"
  <1>0. CountersOK'
    BY RowFacts DEF GetByEmailAndCode, CountersOK, rate
  <1>1. UNCHANGED <<user, used, acked>>
    BY DEF GetByEmailAndCode
  <1>2. \/ Matches(c) /\ Hold(s, kind, step, c)
        \/ Hold(s, "none", "count", NoCode)
    BY DEF GetByEmailAndCode
  <1>3. CASE Matches(c) /\ Hold(s, kind, step, c)
    <2>1. user.code \in Code \cup {NoCode} /\ user.exists /\ c = user.code /\ c # NoCode
      BY <1>3, RowFacts DEF Row, Matches, Found, GetByEmailAndCode, IInv, HoldsCode, At
    <2>2. step \in Steps /\ step # "check" /\ step # "read"
      BY DEF Steps
    <2>3. c \in Code /\ c \in Code \cup {Wrong, NoCode}
      BY <2>1
    <2>4. kind \in {"none", "verify", "reset"}
      BY DEF GetByEmailAndCode, IInv, HoldsCode, At
    <2> HIDE DEF kind, c, step
    <2> QED BY <1>0, <1>1, <1>3, <2>1, <2>2, <2>3, <2>4, QuietInv, Zenon
  <1>4. CASE Hold(s, "none", "count", NoCode)
    <2>1. /\ "count" \in Steps /\ "count" \notin OnRow /\ "count" # "check"
          /\ "count" \notin {"confirm", "read", "clear"} /\ "count" # "forgive"
      BY DEF Steps, OnRow
    <2>2. NoCode \in Code \cup {Wrong, NoCode} /\ "none" \in {"none", "verify", "reset"}
      OBVIOUS
    <2> QED BY <1>0, <1>1, <1>4, <2>1, <2>2, QuietInv, Zenon
  <1> QED BY <1>2, <1>3, <1>4

LEMMA CountInv ==
  ASSUME IInv, NEW s \in Session, CountAttempt(s)
  PROVE  IInv'
  <1> USE AccountsAssumption DEF Go
  <1>1. UNCHANGED <<user, used, acked>>
    BY DEF CountAttempt, history
  <1>2. CountersOK'
    BY RowFacts DEF CountAttempt, Incr, CountersOK, history, Forever
  <1>3. PICK step \in {"block", "idle"} : Hold(s, "none", step, NoCode)
    BY DEF CountAttempt, Done, Hold, Idle
  <1>4. /\ step \in Steps /\ step \notin OnRow /\ step # "check"
        /\ step \notin {"confirm", "read", "clear"} /\ step # "forgive"
    BY DEF Steps, OnRow
  <1>5. NoCode \in Code \cup {Wrong, NoCode} /\ "none" \in {"none", "verify", "reset"}
    OBVIOUS
  <1> QED BY <1>1, <1>2, <1>3, <1>4, <1>5, QuietInv, Zenon

(* To be done is to hold nothing. *)
LEMMA DoneHolds ==
  ASSUME NEW s \in Session, Done(s)
  PROVE  Hold(s, "none", "idle", NoCode)
  BY DEF Done, Hold, Idle

LEMMA IdleInv ==
  ASSUME IInv, NEW s \in Session, Done(s), UNCHANGED <<user, used, acked>>, CountersOK'
  PROVE  IInv'
  <1>1. /\ "idle" \in Steps /\ "idle" \notin OnRow /\ "idle" # "check"
        /\ "idle" \notin {"confirm", "read", "clear"} /\ "idle" # "forgive"
    BY DEF Steps, OnRow
  <1>2. NoCode \in Code \cup {Wrong, NoCode} /\ "none" \in {"none", "verify", "reset"}
    OBVIOUS
  <1> QED BY <1>1, <1>2, DoneHolds, QuietInv, Zenon

LEMMA GiveUpInv ==
  ASSUME IInv, NEW s \in Session, GiveUp(s)
  PROVE  IInv'
  <1>1. CountersOK'
    BY RowFacts, AccountsAssumption DEF GiveUp, CountersOK, history
  <1> QED BY <1>1, IdleInv DEF GiveUp, history

LEMMA ForgiveInv ==
  ASSUME IInv, NEW s \in Session, ResetAttempts(s)
  PROVE  IInv'
  <1>1. CountersOK'
    BY RowFacts, AccountsAssumption DEF ResetAttempts, CountersOK, history
  <1>2. UNCHANGED <<user, used, acked>>
    BY DEF ResetAttempts
  <1>3. CASE Done(s)
    BY <1>1, <1>2, <1>3, IdleInv
  <1>4. CASE req[s].kind = "reset" /\ Hold(s, "reset", "read", req[s].code)
    <2>1. user.exists /\ req[s].code \in Code
      BY <1>4 DEF ResetAttempts, At, IInv, WorksOnRow, HoldsCode
    <2>2. "read" \in Steps /\ "read" # "check" /\ "reset" \in {"none", "verify", "reset"}
      BY DEF Steps
    <2>3. req[s].code \in Code \cup {Wrong, NoCode}
      BY <2>1
    <2> QED BY <1>1, <1>2, <1>4, <2>1, <2>2, <2>3, QuietInv, Zenon
  <1> QED BY <1>3, <1>4 DEF ResetAttempts

-----------------------------------------------------------------------------
(* The statements that clear the code.                                     *)

LEMMA BlockInv ==
  ASSUME IInv, NEW s \in Session, invalidateCode(s)
  PROVE  IInv'
  <1>1. CountersOK'
    BY RowFacts DEF invalidateCode, CountersOK, rate
  <1>2. CASE user.exists
    BY <1>1, <1>2, DoneHolds, ClearInv, RowFacts DEF invalidateCode, Found
  <1>3. CASE ~user.exists
    BY <1>1, <1>3, IdleInv DEF invalidateCode, Found
  <1> QED BY <1>2, <1>3

LEMMA ConfirmInv ==
  ASSUME IInv, NEW s \in Session, VerifyEmailByCode(s)
  PROVE  IInv'
  <1> USE DEF Go
  <1>1. CountersOK'
    BY RowFacts DEF VerifyEmailByCode, CountersOK, rate
  <1>2. user.exists /\ req[s].code \in Code
    BY DEF VerifyEmailByCode, At, IInv, WorksOnRow, HoldsCode
  <1>3. CASE /\ user' = Cleared /\ used' = used \cup {req[s].code}
             /\ Hold(s, "none", "forgive", NoCode) \/ Hold(s, "none", "count", NoCode)
    <2>1. used' \in SUBSET Code
      BY <1>2, <1>3, RowFacts
    <2>2. UNCHANGED acked
      BY DEF VerifyEmailByCode
    <2> QED BY <1>1, <1>2, <1>3, <2>1, <2>2, ClearInv
  <1>4. CASE Hold(s, "none", "count", NoCode) /\ UNCHANGED <<user, used, tries>>
    <2>1. /\ "count" \in Steps /\ "count" \notin OnRow /\ "count" # "check"
          /\ "count" \notin {"confirm", "read", "clear"} /\ "count" # "forgive"
      BY DEF Steps, OnRow
    <2>2. NoCode \in Code \cup {Wrong, NoCode} /\ "none" \in {"none", "verify", "reset"}
      OBVIOUS
    <2>3. UNCHANGED <<user, used, acked>>
      BY <1>4 DEF VerifyEmailByCode
    <2> QED BY <1>1, <1>4, <2>1, <2>2, <2>3, QuietInv, Zenon
  <1> QED BY <1>3, <1>4 DEF VerifyEmailByCode

LEMMA ClearCodeInv ==
  ASSUME IInv, NEW s \in Session, ClearVerificationCode(s)
  PROVE  IInv'
  <1>1. CountersOK'
    BY RowFacts DEF ClearVerificationCode, CountersOK, rate
  <1>2. user.exists /\ req[s].code \in Code
    BY DEF ClearVerificationCode, At, IInv, WorksOnRow, HoldsCode
  <1>3. used' \in SUBSET Code
    BY <1>2, RowFacts DEF ClearVerificationCode
  <1> QED BY <1>1, <1>2, <1>3, DoneHolds, ClearInv DEF ClearVerificationCode

-----------------------------------------------------------------------------
(* The statements that write the row, and those that read it to write it back. *)

LEMMA InsertInv ==
  ASSUME IInv, NEW s \in Session, RegisterWithTransaction(s)
  PROVE  IInv'
  <1> USE AccountsAssumption DEF Go
  <1>1. CountersOK'
    BY RowFacts DEF RegisterWithTransaction, CountersOK, rate
  <1>2. ~user.exists /\ user = Absent
    BY DEF RegisterWithTransaction, ExistsByUsernameOrEmail, IInv, AbsentOrThere
  <1>3. /\ user' = [Absent EXCEPT !.exists = TRUE, !.phone = Stated]
        /\ acked' = [acked EXCEPT !.phone = Stated]
    BY DEF RegisterWithTransaction, Inserted
  <1>4. /\ req' \in [Session -> Request]
        /\ req'[s] = [Idle EXCEPT !.kind = "none", !.step = "save", !.code = NoCode]
        /\ \A x \in Session \ {s} : req'[x] = req[x]
        /\ HoldsCode'
    BY HoldInv DEF RegisterWithTransaction
  <1>5. acked \in [password: Password \cup {NoPassword, Unknown},
                  phone: Phone \cup {Stated, Unknown}]
    BY DEF IInv, TypeOK
  <1>6. user' \in Row /\ user'.exists /\ user'.code = NoCode
        /\ user'.password = NoPassword /\ user'.phone = Stated
    <2>1. user' = [exists |-> TRUE, verified |-> FALSE, code |-> NoCode, left |-> 0,
                   password |-> NoPassword, phone |-> Stated]
      BY <1>3 DEF Absent
    <2>2. 0 \in 0..CodeTTL
      OBVIOUS
    <2> QED BY <2>1, <2>2 DEF Row
  <1>7. TypeOK'
    BY <1>1, <1>3, <1>4, <1>5, <1>6 DEF RegisterWithTransaction, IInv, TypeOK, CountersOK
  <1>8. UsedIsGone' /\ AbsentOrThere' /\ WorksOnRow'
    BY <1>6, RowFacts DEF RegisterWithTransaction, UsedIsGone, AbsentOrThere, WorksOnRow
  <1>9. EditsKept'
    BY <1>2, <1>3, <1>5, <1>6 DEF IInv, EditsKept, Absent
  <1>10. HoldsRow'
    <2> SUFFICES ASSUME NEW x \in Session, req'[x].step = "write" PROVE FALSE
      BY DEF HoldsRow, At
    <2>1. x # s
      BY <1>4 DEF Idle
    <2> QED BY <2>1, <1>2, <1>4 DEF IInv, WorksOnRow
  <1> QED BY <1>4, <1>7, <1>8, <1>9, <1>10 DEF IInv

LEMMA SaveInv ==
  ASSUME IInv, NEW s \in Session, SaveVerificationCode(s)
  PROVE  IInv'
  <1> USE AccountsAssumption
  <1>1. CountersOK'
    BY RowFacts DEF SaveVerificationCode, CountersOK, rate
  <1>2. user.exists /\ user \in Row /\ used \subseteq Code
    BY RowFacts DEF SaveVerificationCode, At, IInv, WorksOnRow
  <1>3. PICK c \in Code : user' = [user EXCEPT !.code = c, !.left = CodeTTL] /\ used' = used \ {c}
    BY DEF SaveVerificationCode, Forgotten
  <1>4. /\ req' \in [Session -> Request]
        /\ req'[s] = [Idle EXCEPT !.kind = "none", !.step = "idle", !.code = NoCode]
        /\ \A x \in Session \ {s} : req'[x] = req[x]
        /\ HoldsCode'
    BY HoldInv, DoneHolds DEF SaveVerificationCode
  <1>5. /\ user' \in Row /\ user'.exists /\ user'.code = c
        /\ user'.password = user.password /\ user'.phone = user.phone
    <2>1. CodeTTL \in 0..CodeTTL
      OBVIOUS
    <2> QED BY <1>2, <1>3, <2>1 DEF Row
  <1>6. TypeOK'
    BY <1>1, <1>2, <1>3, <1>4, <1>5 DEF SaveVerificationCode, IInv, TypeOK, CountersOK
  <1>7. UsedIsGone' /\ AbsentOrThere' /\ WorksOnRow'
    BY <1>3, <1>5 DEF UsedIsGone, AbsentOrThere, WorksOnRow
  <1>8. EditsKept'
    <2>1. DOMAIN acked = {"password", "phone"} /\ acked' = acked
      BY DEF IInv, TypeOK, SaveVerificationCode
    <2> QED BY <2>1, <1>5 DEF IInv, EditsKept
  <1>9. HoldsRow'
    <2> SUFFICES ASSUME NEW x \in Session, req'[x].step = "write"
                 PROVE  /\ req'[x].row \in Held
                        /\ req'[x].kind \in {"reset", "profile"}
                        /\ req'[x].stale \/ IF req'[x].kind = "profile"
                                            THEN req'[x].row.password = user'.password
                                            ELSE req'[x].row.phone = user'.phone
      BY DEF HoldsRow, At
    <2>1. x # s
      BY <1>4 DEF Idle
    <2>2. req'[x] = req[x]
      BY <1>4, <2>1
    <2> QED BY <2>2, <1>5 DEF IInv, HoldsRow, At
  <1> QED BY <1>4, <1>6, <1>7, <1>8, <1>9 DEF IInv

(* A goroutine has the row in its hands, with one column edited. *)
LEMMA ReadInv ==
  ASSUME IInv, NEW s \in Session, NEW r \in Request,
         req' = [req EXCEPT ![s] = r],
         user.exists, r.step = "write", r.row \in Held,
         \/ r.kind = "profile" /\ r.row.password = user.password
         \/ r.kind = "reset" /\ r.row.phone = user.phone /\ r.code \in Code,
         UNCHANGED <<user, rate, history>>
  PROVE  IInv'
  <1>1. /\ req \in [Session -> Request] /\ req' \in [Session -> Request]
        /\ req'[s] = r /\ \A x \in Session \ {s} : req'[x] = req[x]
    BY DEF IInv, TypeOK
  <1>2. UNCHANGED <<user, attempts, window, faults, tries, used, acked>>
    BY DEF rate, history
  <1>3. TypeOK'
    BY <1>1, <1>2 DEF IInv, TypeOK
  <1>4. UsedIsGone' /\ EditsKept' /\ AbsentOrThere' /\ WorksOnRow'
    BY <1>1, <1>2 DEF IInv, UsedIsGone, EditsKept, AbsentOrThere, WorksOnRow
  <1>5. HoldsCode'
    <2> SUFFICES ASSUME NEW x \in Session
                 PROVE  /\ req'[x].step = "check" =>
                             req'[x].code # NoCode /\ req'[x].kind \in {"verify", "reset"}
                        /\ req'[x].step = "read" => req'[x].kind = "reset"
                        /\ \/ req'[x].step \in {"confirm", "read", "clear"}
                           \/ req'[x].step \in {"forgive", "write"} /\ req'[x].kind = "reset"
                           => req'[x].code \in Code
      BY DEF HoldsCode, At
    <2>1. CASE x = s
      BY <2>1, <1>1
    <2>2. CASE x # s
      BY <2>2, <1>1 DEF IInv, HoldsCode, At
    <2> QED BY <2>1, <2>2
  <1>6. HoldsRow'
    BY <1>1, <1>2 DEF IInv, HoldsRow, At
  <1> QED BY <1>3, <1>4, <1>5, <1>6 DEF IInv

LEMMA RowHeld ==
  ASSUME IInv
  PROVE  /\ TheRow \in Held
         /\ \A w \in Password : /\ [TheRow EXCEPT !.password = w] \in Held
                                /\ [TheRow EXCEPT !.password = w].phone = user.phone
         /\ \A p \in Phone : /\ [TheRow EXCEPT !.phone = p] \in Held
                             /\ [TheRow EXCEPT !.phone = p].password = user.password
  <1>1. user \in Row
    BY RowFacts
  <1>2. TheRow \in Held
    BY <1>1 DEF TheRow, Held, Row
  <1> QED BY <1>2 DEF TheRow, Held

LEMMA ReadForPasswordInv ==
  ASSUME IInv, NEW s \in Session, ReadForPassword(s)
  PROVE  IInv'
  <1>1. PICK w \in Password :
          req' = [req EXCEPT ![s].step = "write", ![s].row = [TheRow EXCEPT !.password = w]]
    BY DEF ReadForPassword
  <1>2. user.exists /\ req[s].code \in Code /\ req[s].kind = "reset"
    BY DEF ReadForPassword, At, IInv, WorksOnRow, HoldsCode
  <1> DEFINE r == [req[s] EXCEPT !.step = "write", !.row = [TheRow EXCEPT !.password = w]]
  <1>3. req' = [req EXCEPT ![s] = r]
    BY <1>1, RequestFields
  <1>4. r \in Request /\ r.step = "write" /\ r.row = [TheRow EXCEPT !.password = w]
        /\ r.kind = req[s].kind /\ r.code = req[s].code
    BY RequestFields, RowHeld DEF Request
  <1>5. r.row \in Held /\ r.row.phone = user.phone
    BY <1>4, RowHeld
  <1>6. UNCHANGED <<user, rate, history>>
    BY DEF ReadForPassword
  <1> HIDE DEF r
  <1> QED BY <1>2, <1>3, <1>4, <1>5, <1>6, ReadInv

LEMMA UpdateProfileInv ==
  ASSUME IInv, NEW s \in Session, UpdateProfile(s)
  PROVE  IInv'
  <1>1. PICK p \in Phone :
          req' = [req EXCEPT ![s] = [Idle EXCEPT !.kind = "profile", !.step = "write",
                                                 !.row = [TheRow EXCEPT !.phone = p]]]
    BY DEF UpdateProfile
  <1>2. user.exists
    BY RowFacts DEF UpdateProfile
  <1> DEFINE r == [Idle EXCEPT !.kind = "profile", !.step = "write",
                               !.row = [TheRow EXCEPT !.phone = p]]
  <1>3. r \in Request /\ r.step = "write" /\ r.row = [TheRow EXCEPT !.phone = p]
        /\ r.kind = "profile"
    BY RowHeld DEF Idle, Request
  <1>4. r.row \in Held /\ r.row.password = user.password
    BY <1>3, RowHeld
  <1>5. UNCHANGED <<user, rate, history>>
    BY DEF UpdateProfile
  <1>6. req' = [req EXCEPT ![s] = r]
    BY <1>1
  <1> HIDE DEF r
  <1> QED BY <1>2, <1>3, <1>4, <1>5, <1>6, ReadInv

LEMMA UpdateInv ==
  ASSUME IInv, NEW s \in Session, UpdateUser(s)
  PROVE  IInv'
  <1> USE AccountsAssumption
  <1> DEFINE r == req[s]
             other == IF r.kind = "profile" THEN "password" ELSE "phone"
  <1>1. CountersOK' /\ UNCHANGED used
    BY RowFacts DEF UpdateUser, CountersOK, rate
  <1>2. /\ r.row \in Held /\ r.kind \in {"reset", "profile"}
        /\ r.stale \/ r.row[other] = user[other]
    BY DEF UpdateUser, At, IInv, HoldsRow
  <1>3. /\ user.exists /\ user \in Row
        /\ r.kind = "reset" => r.code \in Code
    BY RowFacts DEF UpdateUser, At, IInv, WorksOnRow, HoldsCode
  <1>4. user' = [user EXCEPT !.password = r.row.password, !.phone = r.row.phone]
    BY DEF UpdateUser, Written
  <1>5. /\ user' \in Row /\ user'.exists /\ user'.code = user.code
        /\ user'.password = r.row.password /\ user'.phone = r.row.phone
    BY <1>2, <1>3, <1>4 DEF Row, Held
  <1>6. /\ acked \in [password: Password \cup {NoPassword, Unknown},
                      phone: Phone \cup {Stated, Unknown}]
        /\ DOMAIN acked = {"password", "phone"}
    BY DEF IInv, TypeOK
  <1>7. /\ acked' = [x \in {"password", "phone"} |->
                      IF x = Column(r.kind) THEN r.row[x]
                      ELSE IF r.stale THEN Unknown ELSE acked[x]]
        /\ DOMAIN acked' = {"password", "phone"}
    BY <1>6 DEF UpdateUser
  <1>8. acked' \in [password: Password \cup {NoPassword, Unknown},
                   phone: Phone \cup {Stated, Unknown}]
    <2>1. /\ acked'["password"] \in Password \cup {NoPassword, Unknown}
          /\ acked'["phone"] \in Phone \cup {Stated, Unknown}
      BY <1>2, <1>6, <1>7 DEF Held
    <2>2. acked' = [password |-> acked'["password"], phone |-> acked'["phone"]]
      BY <1>7
    <2> QED BY <2>1, <2>2
  <1>9. EditsKept'
    <2>1. other # Column(r.kind) /\ {"password", "phone"} = {other, Column(r.kind)}
      BY DEF Column
    <2>2. acked'[Column(r.kind)] = user'[Column(r.kind)]
      BY <1>5, <1>7, <2>1 DEF Column
    <2>3. CASE r.stale
      BY <2>1, <2>2, <2>3, <1>7 DEF EditsKept
    <2>4. CASE ~r.stale
      <3>1. acked'[other] = acked[other] /\ user'[other] = user[other]
        BY <2>1, <2>4, <1>2, <1>5, <1>7
      <3>2. acked[other] \in {user[other], Unknown}
        BY <2>1, <1>6 DEF IInv, EditsKept
      <3> QED BY <3>1, <3>2, <2>1, <2>2, <1>7 DEF EditsKept
    <2> QED BY <2>3, <2>4
  <1>10. req' = [x \in Session |->
                  IF x # s THEN [req[x] EXCEPT !.stale = @ \/ At(x, "write")]
                  ELSE IF r.kind = "profile" THEN Idle
                  ELSE [r EXCEPT !.step = "clear", !.row = NoRow, !.stale = FALSE]]
    BY DEF UpdateUser
  <1>11. ASSUME NEW x \in Session, x # s
         PROVE  /\ req'[x] \in Request
                /\ req'[x].step = req[x].step /\ req'[x].kind = req[x].kind
                /\ req'[x].code = req[x].code /\ req'[x].row = req[x].row
                /\ req[x].step = "write" => req'[x].stale
    <2>1. req'[x] = [req[x] EXCEPT !.stale = @ \/ At(x, "write")]
      BY <1>10, <1>11
    <2>2. req[x] \in Request
      BY RequestFields
    <2>3. (req[x].stale \/ At(x, "write")) \in BOOLEAN
      BY <2>2 DEF Request, At
    <2> QED BY <2>1, <2>2, <2>3 DEF Request, At
  <1>12. /\ req'[s] \in Request /\ req'[s].step \in {"idle", "clear"}
         /\ req'[s].step = "clear" => req'[s].code \in Code
    <2>1. CASE r.kind = "profile"
      <3>1. req'[s] = Idle
        BY <1>10, <2>1
      <3> QED BY <3>1 DEF Idle, Request
    <2>2. CASE r.kind = "reset"
      <3>1. req'[s] = [r EXCEPT !.step = "clear", !.row = NoRow, !.stale = FALSE]
        BY <1>10, <2>2
      <3>2. r \in Request
        BY RequestFields
      <3> QED BY <3>1, <3>2, <2>2, <1>3 DEF Request
    <2> QED BY <2>1, <2>2, <1>2
  <1>13. TypeOK'
    <2>1. req' \in [Session -> Request]
      BY <1>10, <1>11, <1>12
    <2> QED BY <2>1, <1>1, <1>5, <1>8 DEF IInv, TypeOK, CountersOK
  <1>14. UsedIsGone' /\ AbsentOrThere' /\ WorksOnRow'
    BY <1>1, <1>5, RowFacts DEF UsedIsGone, AbsentOrThere, WorksOnRow
  <1>15. HoldsCode'
    <2> SUFFICES ASSUME NEW x \in Session
                 PROVE  /\ req'[x].step = "check" =>
                             req'[x].code # NoCode /\ req'[x].kind \in {"verify", "reset"}
                        /\ req'[x].step = "read" => req'[x].kind = "reset"
                        /\ \/ req'[x].step \in {"confirm", "read", "clear"}
                           \/ req'[x].step \in {"forgive", "write"} /\ req'[x].kind = "reset"
                           => req'[x].code \in Code
      BY DEF HoldsCode, At
    <2>1. CASE x = s
      BY <2>1, <1>12
    <2>2. CASE x # s
      BY <2>2, <1>11 DEF IInv, HoldsCode, At
    <2> QED BY <2>1, <2>2
  <1>16. HoldsRow'
    <2> SUFFICES ASSUME NEW x \in Session, req'[x].step = "write"
                 PROVE  /\ req'[x].row \in Held
                        /\ req'[x].kind \in {"reset", "profile"}
                        /\ req'[x].stale
      BY DEF HoldsRow, At
    <2>1. x # s
      BY <1>12
    <2> QED BY <2>1, <1>11 DEF IInv, HoldsRow, At
  <1> QED BY <1>9, <1>13, <1>14, <1>15, <1>16 DEF IInv

LEMMA ClockInv ==
  ASSUME IInv, Tick \/ LoseCounters
  PROVE  IInv'
  <1> USE AccountsAssumption
  <1>1. CountersOK'
    BY RowFacts DEF Tick, LoseCounters, CountersOK, history, Forever
  <1>2. user \in Row
    BY RowFacts
  <1>3. /\ user' \in Row /\ user'.exists = user.exists /\ user'.code = user.code
        /\ user'.password = user.password /\ user'.phone = user.phone
        /\ user = Absent => user' = Absent
    <2>1. CASE user' = user
      BY <1>2, <2>1
    <2>2. CASE user' = [user EXCEPT !.left = IF @ > 0 THEN @ - 1 ELSE 0]
      <3>1. user.left \in 0..CodeTTL
        BY <1>2 DEF Row
      <3>2. (IF user.left > 0 THEN user.left - 1 ELSE 0) \in 0..CodeTTL
        BY <3>1
      <3>3. user = Absent => (IF user.left > 0 THEN user.left - 1 ELSE 0) = user.left
        BY DEF Absent
      <3>4. user = Absent => user' = user
        BY <1>2, <2>2, <3>3 DEF Row
      <3>5. /\ user' \in Row /\ user'.exists = user.exists /\ user'.code = user.code
            /\ user'.password = user.password /\ user'.phone = user.phone
        BY <1>2, <2>2, <3>2 DEF Row
      <3> QED BY <3>4, <3>5
    <2> QED BY <2>1, <2>2 DEF Tick, LoseCounters
  <1>4. UNCHANGED <<req, used, acked>>
    BY DEF Tick, LoseCounters, history
  <1>5. TypeOK'
    BY <1>1, <1>3, <1>4 DEF IInv, TypeOK, CountersOK
  <1>6. UsedIsGone' /\ AbsentOrThere' /\ WorksOnRow'
    BY <1>3, <1>4 DEF IInv, UsedIsGone, AbsentOrThere, WorksOnRow
  <1>7. EditsKept'
    <2>1. DOMAIN acked = {"password", "phone"}
      BY DEF IInv, TypeOK
    <2> QED BY <2>1, <1>3, <1>4 DEF IInv, EditsKept
  <1>8. HoldsCode' /\ HoldsRow'
    BY <1>3, <1>4 DEF IInv, HoldsCode, HoldsRow, At
  <1> QED BY <1>5, <1>6, <1>7, <1>8 DEF IInv

LEMMA StepInv == IInv /\ [Next]_vars => IInv'
  <1> SUFFICES ASSUME IInv, [Next]_vars PROVE IInv'
    OBVIOUS
  <1>1. CASE UNCHANGED vars
    BY <1>1 DEF vars, IInv, TypeOK, UsedIsGone, EditsKept, AbsentOrThere, WorksOnRow,
                HoldsCode, HoldsRow, At
  <1>2. CASE Tick \/ LoseCounters
    BY <1>2, ClockInv
  <1>3. ASSUME NEW s \in Session, Serve(s) PROVE IInv'
    BY <1>3, AskInv, InsertInv, SaveInv, EnterInv, LookUpInv, CountInv, BlockInv,
       ConfirmInv, ForgiveInv, ReadForPasswordInv, UpdateProfileInv, UpdateInv,
       ClearCodeInv, GiveUpInv DEF Serve, VerifyEmail, ResetPassword
  <1> QED BY <1>1, <1>2, <1>3 DEF Next

LEMMA Invariance == Spec => []IInv
  BY InitInv, StepInv, PTL DEF Spec

-----------------------------------------------------------------------------
(* The row, the counter and the requests keep their types, and a counter has a window
   exactly while it counts. *)
THEOREM TypeCorrect == Spec => []TypeOK
  <1>1. IInv => TypeOK
    BY DEF IInv
  <1> QED BY <1>1, Invariance, PTL

(* Whatever requests overlap, a code that was accepted does not come back into the row. *)
THEOREM UsedCodesStayGone == Spec => []UsedIsGone
  <1>1. IInv => UsedIsGone
    BY DEF IInv
  <1> QED BY <1>1, Invariance, PTL

(* Any number of edits of a profile and of the password leave the last value of each
   column in the row, but for those that one of them overtook. *)
THEOREM LastEditsKept == Spec => []EditsKept
  <1>1. IInv => EditsKept
    BY DEF IInv
  <1> QED BY <1>1, Invariance, PTL
-----------------------------------------------------------------------------
(* The tries of one code.  A window lets through at most Most of them: the attempts it
   counts and the requests on their way when it is full.  A code that outlives a window has
   one of that window's attempts behind it which was another code's, or none.          *)

Most == MaxAttempts + Cardinality(Session) - 1

Budget == faults * Most

(* Requests that were let through and are not counted yet; those of them that are wrong. *)
InFlight == {s \in Session : req[s].step \in {"check", "confirm", "count"}}
Counting == {s \in Session : req[s].step = "count"}

(* What is left of a code's tries: e are put down to faults and windows a fault ended, h to
   requests let through by a fault.  The window is the first the code has seen, or the
   first has ended and this one outlives the code. *)
Accounted(e, h) ==
  /\ e + h <= Budget
  /\ attempts + Cardinality(InFlight) <= Most + h
  /\ \/ /\ tries <= e + attempts + Cardinality(Counting)
        /\ 0 < window /\ window < user.left => tries < e + attempts + Cardinality(Counting)
     \/ /\ tries < Most + e + attempts + Cardinality(Counting)
        /\ window <= 0 \/ window >= user.left

TriesInv == \E e, h \in Nat : Accounted(e, h)

(* Numbers are numbers, before and after a step. *)
LEMMA Numbers ==
  ASSUME IInv
  PROVE  /\ attempts \in Nat /\ tries \in Nat /\ faults \in Nat
         /\ window \in Int /\ window >= -1 /\ user.left \in 0..CodeTTL
         /\ attempts = 0 <=> window = 0
  BY AccountsAssumption DEF IInv, TypeOK, Row, Forever

LEMMA MostFacts ==
  /\ Cardinality(Session) \in Nat /\ Cardinality(Session) >= 1
  /\ Most \in Nat /\ Most >= 1 /\ Cardinality(Session) <= Most
  /\ CodeTTL \in Nat /\ WindowTTL \in Nat /\ CodeTTL <= WindowTTL /\ MaxAttempts \in Nat
  <1>1. Cardinality(Session) \in Nat
    BY FS_CardinalityType, AccountsAssumption
  <1>2. Cardinality(Session) # 0
    BY FS_EmptySet, AccountsAssumption
  <1> QED BY <1>1, <1>2, AccountsAssumption DEF Most

LEMMA BudgetGrows ==
  ASSUME IInv
  PROVE  /\ Budget \in Nat
         /\ faults' = faults => Budget' = Budget
         /\ faults' = faults + 1 => Budget' = Budget + Most
  <1>1. faults \in Nat /\ Most \in Nat
    BY Numbers, MostFacts
  <1>2. \A n, k \in Nat : n * k \in Nat /\ (n + 1) * k = n * k + k
    OBVIOUS
  <1>3. Most' = Most
    BY DEF Most
  <1> QED BY <1>1, <1>2, <1>3 DEF Budget

LEMMA Sizes ==
  /\ Cardinality(InFlight) \in Nat /\ Cardinality(Counting) \in Nat
  /\ Cardinality(InFlight') \in Nat /\ Cardinality(Counting') \in Nat
  /\ Cardinality(InFlight') <= Cardinality(Session)
  /\ Cardinality(Counting) <= Cardinality(InFlight)
  <1>1. \A S \in SUBSET Session : Cardinality(S) \in Nat /\ Cardinality(S) <= Cardinality(Session)
    BY FS_Subset, FS_CardinalityType, AccountsAssumption
  <1>2. /\ InFlight \in SUBSET Session /\ Counting \in SUBSET Session
        /\ InFlight' \in SUBSET Session /\ Counting' \in SUBSET Session
    BY DEF InFlight, Counting
  <1>3. Counting \subseteq InFlight /\ IsFiniteSet(InFlight)
    BY <1>2, FS_Subset, AccountsAssumption DEF InFlight, Counting
  <1>4. Cardinality(Counting) <= Cardinality(InFlight)
    BY <1>3, FS_Subset
  <1> QED BY <1>1, <1>2, <1>4

LEMMA OffByOne ==
  ASSUME NEW S, NEW T, NEW s, IsFiniteSet(S), S \ {s} = T \ {s}
  PROVE  Cardinality(T) = Cardinality(S) - (IF s \in S THEN 1 ELSE 0) + (IF s \in T THEN 1 ELSE 0)
  <1> DEFINE U == S \ {s}
  <1>1. IsFiniteSet(U) /\ Cardinality(U) \in Nat
    BY FS_Subset, FS_CardinalityType
  <1>2. s \notin U /\ Cardinality(U \cup {s}) = Cardinality(U) + 1
    BY <1>1, FS_AddElement
  <1>3. S = IF s \in S THEN U \cup {s} ELSE U
    OBVIOUS
  <1>4. T = IF s \in T THEN U \cup {s} ELSE U
    OBVIOUS
  <1> HIDE DEF U
  <1>5. Cardinality(S) = Cardinality(U) + (IF s \in S THEN 1 ELSE 0)
    <2>1. CASE s \in S
      BY <2>1, <1>1, <1>2, <1>3
    <2>2. CASE s \notin S
      BY <2>2, <1>1, <1>3
    <2> QED BY <2>1, <2>2
  <1>6. Cardinality(T) = Cardinality(U) + (IF s \in T THEN 1 ELSE 0)
    <2>1. CASE s \in T
      BY <2>1, <1>1, <1>2, <1>4
    <2>2. CASE s \notin T
      BY <2>2, <1>1, <1>4
    <2> QED BY <2>1, <2>2
  <1> QED BY <1>1, <1>5, <1>6

(* One goroutine goes from a step to another. *)
Passes(s, step) ==
  /\ req'[s].step = step
  /\ \A x \in Session \ {s} : req'[x].step = req[x].step

Counts(x, S) == IF x \in S THEN 1 ELSE 0

LEMMA PassCounts ==
  ASSUME NEW s \in Session, NEW step, Passes(s, step)
  PROVE  /\ Cardinality(InFlight') = Cardinality(InFlight)
              - Counts(req[s].step, {"check", "confirm", "count"})
              + Counts(step, {"check", "confirm", "count"})
         /\ Cardinality(Counting') = Cardinality(Counting)
              - Counts(req[s].step, {"count"}) + Counts(step, {"count"})
  <1>1. InFlight \ {s} = InFlight' \ {s} /\ Counting \ {s} = Counting' \ {s}
    BY DEF Passes, InFlight, Counting
  <1>2. IsFiniteSet(InFlight) /\ IsFiniteSet(Counting)
    BY FS_Subset, AccountsAssumption DEF InFlight, Counting
  <1>3. /\ s \in InFlight <=> req[s].step \in {"check", "confirm", "count"}
        /\ s \in InFlight' <=> step \in {"check", "confirm", "count"}
        /\ s \in Counting <=> req[s].step \in {"count"}
        /\ s \in Counting' <=> step \in {"count"}
    BY DEF Passes, InFlight, Counting
  <1>4. Cardinality(InFlight') = Cardinality(InFlight)
          - (IF s \in InFlight THEN 1 ELSE 0) + (IF s \in InFlight' THEN 1 ELSE 0)
    BY <1>1, <1>2, OffByOne
  <1>5. Cardinality(Counting') = Cardinality(Counting)
          - (IF s \in Counting THEN 1 ELSE 0) + (IF s \in Counting' THEN 1 ELSE 0)
    BY <1>1, <1>2, OffByOne
  <1> QED BY <1>3, <1>4, <1>5 DEF Counts

LEMMA HoldPasses ==
  ASSUME IInv, NEW s \in Session, NEW kind, NEW step, NEW c, Hold(s, kind, step, c)
  PROVE  Passes(s, step)
  BY DEF IInv, TypeOK, Hold, Idle, Passes

LEMMA GoPasses ==
  ASSUME IInv, NEW s \in Session
  PROVE  /\ \A step : Go(s, step) => Passes(s, step)
         /\ Done(s) => Passes(s, "idle")
  BY HoldPasses, DoneHolds DEF Go

(* A step that counts nothing and compares nothing. *)
LEMMA QuietTries ==
  ASSUME IInv, TriesInv,
         UNCHANGED <<attempts, window, tries>>, user'.left = user.left,
         faults' \in {faults, faults + 1},
         \/ Cardinality(InFlight') <= Cardinality(InFlight)
         \/ attempts + Cardinality(InFlight') <= Most,
         Cardinality(Counting') >= Cardinality(Counting)
  PROVE  TriesInv'
  <1>1. PICK e, h \in Nat : Accounted(e, h)
    BY DEF TriesInv
  <1>2. Budget' >= Budget /\ Budget \in Nat /\ Budget' \in Nat
    BY BudgetGrows, MostFacts
  <1>3. Most' = Most
    BY DEF Most
  <1>4. Accounted(e, h)'
    BY <1>1, <1>2, <1>3, Numbers, MostFacts, Sizes DEF Accounted
  <1> QED BY <1>4 DEF TriesInv

(* A step after which no try counts against the code. *)
LEMMA ForgottenTries ==
  ASSUME IInv, IInv', TriesInv, tries' = 0,
         faults' \in {faults, faults + 1},
         \/ attempts' = attempts /\ Cardinality(InFlight') <= Cardinality(InFlight)
         \/ attempts' = 0
  PROVE  TriesInv'
  <1>1. PICK e, h \in Nat : Accounted(e, h)
    BY DEF TriesInv
  <1>2. Budget' >= Budget /\ Budget \in Nat /\ Budget' \in Nat
    BY BudgetGrows, MostFacts
  <1>3. Most' = Most
    BY DEF Most
  <1>4. attempts' \in Nat /\ window' \in Int /\ (attempts' = 0 <=> window' = 0)
    BY AccountsAssumption DEF IInv, TypeOK, Forever
  <1>5. Accounted(e, h)'
    BY <1>1, <1>2, <1>3, <1>4, Numbers, MostFacts, Sizes DEF Accounted
  <1> QED BY <1>5 DEF TriesInv

-----------------------------------------------------------------------------
(* The steps that count, compare or let a request through.                 *)

LEMMA EnterTries ==
  ASSUME IInv, TriesInv, NEW s \in Session, NEW kind, EnterCode(s, kind)
  PROVE  TriesInv'
  <1>1. PICK e, h \in Nat : Accounted(e, h)
    BY DEF TriesInv
  <1>2. UNCHANGED <<user, attempts, window, tries>> /\ req[s].step = "idle"
    BY DEF EnterCode, history, At
  <1>3. PICK c \in {user.code, Wrong} \ {NoCode} :
          \/ attempts < MaxAttempts /\ Hold(s, kind, "check", c) /\ UNCHANGED faults
          \/ Go(s, "block") /\ UNCHANGED faults
          \/ faults' = faults + 1 /\ Hold(s, kind, "check", c)
    BY DEF EnterCode
  <1>4. CASE attempts < MaxAttempts /\ Hold(s, kind, "check", c) /\ UNCHANGED faults
    <2>1. Passes(s, "check")
      BY <1>4, HoldPasses
    <2>2. Cardinality(Counting') = Cardinality(Counting)
      BY <2>1, <1>2, PassCounts, Sizes DEF Counts
    <2>3. attempts + Cardinality(InFlight') <= Most
      BY <1>4, Sizes, MostFacts, Numbers DEF Most
    <2> QED BY <1>2, <1>4, <2>2, <2>3, Sizes, QuietTries
  <1>5. CASE Go(s, "block") /\ UNCHANGED faults
    <2>1. Passes(s, "block")
      BY <1>5, GoPasses
    <2>2. /\ Cardinality(Counting') = Cardinality(Counting)
          /\ Cardinality(InFlight') = Cardinality(InFlight)
      BY <2>1, <1>2, PassCounts, Sizes DEF Counts
    <2> QED BY <1>2, <1>5, <2>2, Sizes, QuietTries
  <1>6. CASE faults' = faults + 1 /\ Hold(s, kind, "check", c)
    <2>1. Passes(s, "check")
      BY <1>6, HoldPasses
    <2>2. /\ Cardinality(Counting') = Cardinality(Counting)
          /\ Cardinality(InFlight') = Cardinality(InFlight) + 1
      BY <2>1, <1>2, PassCounts, Sizes DEF Counts
    <2>3. Budget' = Budget + Most /\ Budget \in Nat /\ Most' = Most
      BY <1>6, BudgetGrows DEF Most
    <2>4. Accounted(e, h + 1)'
      BY <1>1, <1>2, <2>2, <2>3, Numbers, MostFacts, Sizes DEF Accounted
    <2> QED BY <2>4 DEF TriesInv
  <1> QED BY <1>3, <1>4, <1>5, <1>6

LEMMA LookUpTries ==
  ASSUME IInv, TriesInv, NEW s \in Session, GetByEmailAndCode(s)
  PROVE  TriesInv'
  <1>1. PICK e, h \in Nat : Accounted(e, h)
    BY DEF TriesInv
  <1>2. UNCHANGED <<user, attempts, window, faults>> /\ req[s].step = "check"
    BY DEF GetByEmailAndCode, rate, At
  <1>3. CASE /\ tries' = tries
             /\ \E step \in {"confirm", "forgive"} : Hold(s, req[s].kind, step, req[s].code)
    <2>1. PICK step \in {"confirm", "forgive"} : Passes(s, step)
      BY <1>3, HoldPasses
    <2>2. /\ Cardinality(Counting') = Cardinality(Counting)
          /\ Cardinality(InFlight') <= Cardinality(InFlight)
      BY <2>1, <1>2, PassCounts, Sizes DEF Counts
    <2> QED BY <1>2, <1>3, <2>2, Sizes, QuietTries
  <1>4. CASE tries' \in {tries, tries + 1} /\ Go(s, "count")
    <2>1. Passes(s, "count")
      BY <1>4, GoPasses
    <2>2. /\ Cardinality(Counting') = Cardinality(Counting) + 1
          /\ Cardinality(InFlight') = Cardinality(InFlight)
      BY <2>1, <1>2, PassCounts, Sizes DEF Counts
    <2>3. Budget' = Budget /\ Budget \in Nat /\ Most' = Most
      BY <1>2, BudgetGrows DEF Most
    <2>4. Accounted(e, h)'
      BY <1>1, <1>2, <1>4, <2>2, <2>3, Numbers, MostFacts, Sizes DEF Accounted
    <2> QED BY <2>4 DEF TriesInv
  <1>5. \/ tries' = tries /\ \E step \in {"confirm", "forgive"} :
                                Hold(s, req[s].kind, step, req[s].code)
        \/ tries' \in {tries, tries + 1} /\ Go(s, "count")
    BY DEF GetByEmailAndCode
  <1> QED BY <1>3, <1>4, <1>5

LEMMA CountTries ==
  ASSUME IInv, TriesInv, NEW s \in Session, CountAttempt(s)
  PROVE  TriesInv'
  <1>1. PICK e, h \in Nat : Accounted(e, h)
    BY DEF TriesInv
  <1>2. UNCHANGED <<user, tries>> /\ req[s].step = "count" /\ Most' = Most
    BY DEF CountAttempt, history, At, Most
  <1>3. PICK n \in 1..(attempts + 1) : Incr(n)
    BY DEF CountAttempt
  <1>4. PICK step \in {"block", "idle"} : Passes(s, step)
    BY GoPasses DEF CountAttempt
  <1>5. /\ Cardinality(Counting') = Cardinality(Counting) - 1
        /\ Cardinality(InFlight') = Cardinality(InFlight) - 1
    BY <1>2, <1>4, PassCounts, Sizes DEF Counts
  <1>6. CASE /\ attempts' = attempts + 1 /\ faults' = faults
             /\ window' = IF attempts = 0 THEN WindowTTL ELSE window
    <2>1. Budget' = Budget /\ Budget \in Nat
      BY <1>6, BudgetGrows
    <2>2. Accounted(e, h)'
      BY <1>1, <1>2, <1>5, <1>6, <2>1, Numbers, MostFacts, Sizes DEF Accounted
    <2> QED BY <2>2 DEF TriesInv
  <1>7. CASE /\ attempts' = attempts + 1 /\ faults' = faults + 1
             /\ window' = IF attempts = 0 THEN Forever ELSE window
    <2>1. Budget' = Budget + Most /\ Budget \in Nat
      BY <1>7, BudgetGrows
    <2>2. Accounted(e, h)'
      BY <1>1, <1>2, <1>5, <1>7, <2>1, Numbers, MostFacts, Sizes DEF Accounted, Forever
    <2> QED BY <2>2 DEF TriesInv
  <1>8. CASE faults' = faults + 1 /\ UNCHANGED <<attempts, window>>
    <2>1. Budget' = Budget + Most /\ Budget \in Nat
      BY <1>8, BudgetGrows
    <2>2. Accounted(e + 1, h)'
      BY <1>1, <1>2, <1>5, <1>8, <2>1, Numbers, MostFacts, Sizes DEF Accounted
    <2> QED BY <2>2 DEF TriesInv
  <1> QED BY <1>3, <1>6, <1>7, <1>8 DEF Incr

LEMMA GiveUpTries ==
  ASSUME IInv, TriesInv, NEW s \in Session, GiveUp(s)
  PROVE  TriesInv'
  <1>1. PICK e, h \in Nat : Accounted(e, h)
    BY DEF TriesInv
  <1>2. UNCHANGED <<user, attempts, window, tries>> /\ Passes(s, "idle") /\ Most' = Most
    BY GoPasses DEF GiveUp, history, Most
  <1>3. CASE req[s].step = "count"
    <2>1. faults' = faults + 1
      BY <1>3 DEF GiveUp, At
    <2>2. /\ Cardinality(Counting') = Cardinality(Counting) - 1
          /\ Cardinality(InFlight') = Cardinality(InFlight) - 1
      BY <1>2, <1>3, PassCounts, Sizes DEF Counts
    <2>3. Budget' = Budget + Most /\ Budget \in Nat
      BY <2>1, BudgetGrows
    <2>4. Accounted(e + 1, h)'
      BY <1>1, <1>2, <2>2, <2>3, Numbers, MostFacts, Sizes DEF Accounted
    <2> QED BY <2>4 DEF TriesInv
  <1>4. CASE req[s].step # "count"
    <2>1. faults' = faults
      BY <1>4 DEF GiveUp, At
    <2>2. /\ Cardinality(Counting') = Cardinality(Counting)
          /\ Cardinality(InFlight') <= Cardinality(InFlight)
      BY <1>2, <1>4, PassCounts, Sizes DEF Counts
    <2> QED BY <1>2, <2>1, <2>2, Sizes, QuietTries
  <1> QED BY <1>3, <1>4

(* A window that ends, by time or because Redis loses it, puts its attempts down to the
   first window of the code, or to the fault. *)
LEMMA WindowTries ==
  ASSUME IInv, IInv', TriesInv, Tick \/ LoseCounters
  PROVE  TriesInv'
  <1>1. PICK e, h \in Nat : Accounted(e, h)
    BY DEF TriesInv
  <1>2. UNCHANGED req /\ Most' = Most
    BY DEF Tick, LoseCounters, Most
  <1>3. /\ Cardinality(Counting') = Cardinality(Counting)
        /\ Cardinality(InFlight') = Cardinality(InFlight)
    BY <1>2 DEF Counting, InFlight
  <1>4. CASE LoseCounters
    <2>1. /\ faults' = faults + 1 /\ attempts' = 0 /\ window' = 0
          /\ UNCHANGED <<user, tries>>
      BY <1>4 DEF LoseCounters, history
    <2>2. Budget' = Budget + Most /\ Budget \in Nat
      BY <2>1, BudgetGrows
    <2>3. Accounted(e + h + Most, 0)'
      BY <1>1, <1>2, <1>3, <2>1, <2>2, Numbers, MostFacts, Sizes DEF Accounted
    <2> QED BY <2>3, MostFacts DEF TriesInv
  <1>5. CASE Tick
    <2>1. /\ faults' = faults
          /\ window' = IF window > 0 THEN window - 1 ELSE window
          /\ attempts' = IF window = 1 THEN 0 ELSE attempts
          /\ tries' = IF user.left > 1 THEN tries ELSE 0
          /\ user'.left = IF user.left > 0 THEN user.left - 1 ELSE 0
      BY <1>5, RowFacts DEF Tick, Row
    <2>2. Budget' = Budget /\ Budget \in Nat
      BY <2>1, BudgetGrows
    <2>3. CASE user.left <= 1
      <3>1. tries' = 0
        BY <2>1, <2>3, Numbers
      <3> QED BY <3>1, <1>3, <2>1, Sizes, ForgottenTries
    <2>4. CASE user.left > 1 /\ window # 1
      <3>1. Accounted(e, h)'
        BY <1>1, <1>2, <1>3, <2>1, <2>2, <2>4, Numbers, MostFacts, Sizes DEF Accounted
      <3> QED BY <3>1 DEF TriesInv
    <2>5. CASE user.left > 1 /\ window = 1
      <3>1. tries < e + attempts + Cardinality(Counting)
        BY <1>1, <2>5, Numbers DEF Accounted
      <3>2. attempts + Cardinality(Counting) <= Most + h
        BY <1>1, Sizes, Numbers, MostFacts DEF Accounted
      <3>3. Accounted(e + h, 0)'
        BY <1>1, <1>2, <1>3, <2>1, <2>2, <2>5, <3>1, <3>2, Numbers, MostFacts, Sizes
           DEF Accounted
      <3> QED BY <3>3 DEF TriesInv
    <2> QED BY <2>3, <2>4, <2>5, Numbers
  <1> QED BY <1>4, <1>5

-----------------------------------------------------------------------------
(* The steps after which nothing has been tried, and the others.           *)

LEMMA PassesOn ==
  ASSUME NEW s \in Session, NEW step, Passes(s, step),
         \/ step \notin {"check", "confirm", "count"}
         \/ step = "count" /\ req[s].step = "confirm",
         req[s].step # "count"
  PROVE  /\ Cardinality(InFlight') <= Cardinality(InFlight)
         /\ Cardinality(Counting') >= Cardinality(Counting)
  BY PassCounts, Sizes DEF Counts

LEMMA ForgettingTries ==
  ASSUME IInv, IInv', TriesInv, NEW s \in Session,
         \/ SaveVerificationCode(s) \/ invalidateCode(s) \/ VerifyEmailByCode(s)
         \/ ResetAttempts(s) \/ ClearVerificationCode(s)
  PROVE  TriesInv'
  <1>1. CASE SaveVerificationCode(s) \/ invalidateCode(s) \/ ClearVerificationCode(s)
    <2>1. /\ Done(s) /\ tries' = 0 /\ attempts' = attempts /\ faults' = faults
          /\ req[s].step \in {"save", "block", "clear"}
      <3>1. CASE SaveVerificationCode(s)
        BY <3>1, Zenon DEF SaveVerificationCode, At, rate
      <3>2. CASE invalidateCode(s)
        BY <3>2 DEF invalidateCode, At, rate
      <3>3. CASE ClearVerificationCode(s)
        BY <3>3 DEF ClearVerificationCode, At, rate
      <3> QED BY <1>1, <3>1, <3>2, <3>3
    <2> QED BY <2>1, GoPasses, PassesOn, ForgottenTries
  <1>2. CASE VerifyEmailByCode(s)
    <2>1. /\ attempts' = attempts /\ window' = window /\ faults' = faults
          /\ req[s].step = "confirm"
          /\ \/ tries' = 0 /\ (Go(s, "forgive") \/ Go(s, "count"))
             \/ UNCHANGED <<user, tries>> /\ Go(s, "count")
      BY <1>2 DEF VerifyEmailByCode, At, rate
    <2>2. CASE tries' = 0 /\ (Go(s, "forgive") \/ Go(s, "count"))
      BY <2>1, <2>2, GoPasses, PassesOn, ForgottenTries
    <2>3. CASE UNCHANGED <<user, tries>> /\ Go(s, "count")
      BY <2>1, <2>3, GoPasses, PassesOn, QuietTries
    <2> QED BY <2>1, <2>2, <2>3
  <1>3. CASE ResetAttempts(s)
    <2>1. /\ req[s].step = "forgive" /\ user' = user
          /\ \/ attempts' = 0 /\ tries' = 0 /\ faults' = faults
             \/ faults' = faults + 1 /\ UNCHANGED <<attempts, window, tries>>
          /\ Done(s) \/ Hold(s, "reset", "read", req[s].code)
      BY <1>3 DEF ResetAttempts, At
    <2>2. Passes(s, "idle") \/ Passes(s, "read")
      BY <2>1, GoPasses, HoldPasses
    <2>3. /\ Cardinality(InFlight') <= Cardinality(InFlight)
          /\ Cardinality(Counting') >= Cardinality(Counting)
      BY <2>1, <2>2, PassesOn
    <2>4. CASE attempts' = 0 /\ tries' = 0 /\ faults' = faults
      BY <2>3, <2>4, ForgottenTries
    <2>5. CASE faults' = faults + 1 /\ UNCHANGED <<attempts, window, tries>>
      BY <2>1, <2>3, <2>5, QuietTries
    <2> QED BY <2>1, <2>4, <2>5
  <1> QED BY <1>1, <1>2, <1>3

(* A step of a request that neither tries nor counts, and leaves the deadline alone. *)
LEMMA PassingTries ==
  ASSUME IInv, TriesInv, NEW s \in Session,
         NEW step \in {"save", "insert", "write", "clear", "idle"}, Passes(s, step),
         req[s].step # "count",
         UNCHANGED <<attempts, window, tries, faults>>, user'.left = user.left
  PROVE  TriesInv'
  BY PassesOn, QuietTries

LEMMA OtherTries ==
  ASSUME IInv, TriesInv, NEW s \in Session,
         \/ Register(s) \/ ResendVerificationCode(s) \/ Login(s) \/ ForgotPassword(s)
         \/ RegisterWithTransaction(s)
         \/ ReadForPassword(s) \/ UpdateProfile(s) \/ UpdateUser(s)
  PROVE  TriesInv'
  <1>0. req \in [Session -> Request]
    BY DEF IInv, TypeOK
  <1>1. CASE Register(s) \/ ResendVerificationCode(s) \/ Login(s) \/ ForgotPassword(s)
    <2>1. /\ req[s].step = "idle" /\ UNCHANGED <<user, attempts, window, tries, faults>>
          /\ Go(s, "save") \/ Go(s, "insert")
      BY <1>1 DEF Register, ResendVerificationCode, Login, ForgotPassword, At, rate, history
    <2>2. Passes(s, "save") \/ Passes(s, "insert")
      BY <2>1, GoPasses
    <2> QED BY <2>1, <2>2, PassingTries
  <1>2. CASE RegisterWithTransaction(s)
    <2>1. /\ req[s].step = "insert" /\ ~user.exists /\ Go(s, "save")
          /\ UNCHANGED <<attempts, window, tries, faults>>
      BY <1>2 DEF RegisterWithTransaction, ExistsByUsernameOrEmail, At, rate
    <2>2. user.left = 0
      BY <2>1 DEF IInv, AbsentOrThere, Absent
    <2>3. user' = Inserted
      BY <1>2 DEF RegisterWithTransaction
    <2>4. user'.left = 0
      BY <2>3 DEF Inserted, Absent
    <2> QED BY <2>1, <2>2, <2>4, GoPasses, PassingTries
  <1>3. CASE ReadForPassword(s)
    <2>1. /\ req[s].step = "read" /\ UNCHANGED <<user, attempts, window, tries, faults>>
      BY <1>3, Zenon DEF ReadForPassword, At, rate, history
    <2>2. PICK w \in Password :
            req' = [req EXCEPT ![s].step = "write", ![s].row = [TheRow EXCEPT !.password = w]]
      BY <1>3, Zenon DEF ReadForPassword
    <2>3. Passes(s, "write")
      BY <1>0, <2>2 DEF Passes, Request
    <2> QED BY <2>1, <2>3, PassingTries
  <1>4. CASE UpdateProfile(s)
    <2>1. /\ req[s].step = "idle" /\ UNCHANGED <<user, attempts, window, tries, faults>>
      BY <1>4, Zenon DEF UpdateProfile, At, rate, history
    <2>2. PICK p \in Phone :
            req' = [req EXCEPT ![s] = [Idle EXCEPT !.kind = "profile", !.step = "write",
                                                   !.row = [TheRow EXCEPT !.phone = p]]]
      BY <1>4, Zenon DEF UpdateProfile
    <2>3. Passes(s, "write")
      BY <1>0, <2>2 DEF Passes, Idle
    <2> QED BY <2>1, <2>3, PassingTries
  <1>5. CASE UpdateUser(s)
    <2>1. /\ req[s].step = "write" /\ UNCHANGED <<attempts, window, tries, faults>>
      BY <1>5 DEF UpdateUser, At, rate
    <2>2. user' = [user EXCEPT !.password = req[s].row.password, !.phone = req[s].row.phone]
      BY <1>5 DEF UpdateUser, Written
    <2>3. user'.left = user.left
      BY <2>2, RowFacts DEF Row
    <2>4. req' = [x \in Session |->
                   IF x # s THEN [req[x] EXCEPT !.stale = @ \/ At(x, "write")]
                   ELSE IF req[s].kind = "profile" THEN Idle
                   ELSE [req[s] EXCEPT !.step = "clear", !.row = NoRow, !.stale = FALSE]]
      BY <1>5 DEF UpdateUser
    <2>5. \A x \in Session \ {s} : req'[x] = [req[x] EXCEPT !.stale = @ \/ At(x, "write")]
      BY <2>4
    <2>6. \A x \in Session \ {s} : req'[x].step = req[x].step
      BY <1>0, <2>5 DEF Request
    <2>7. CASE req[s].kind = "profile"
      <3>1. req'[s] = Idle
        BY <2>4, <2>7
      <3>2. Passes(s, "idle")
        BY <3>1, <2>6 DEF Passes, Idle
      <3> QED BY <2>1, <2>3, <3>2, PassingTries
    <2>8. CASE req[s].kind # "profile"
      <3>1. req'[s] = [req[s] EXCEPT !.step = "clear", !.row = NoRow, !.stale = FALSE]
        BY <2>4, <2>8
      <3>2. Passes(s, "clear")
        BY <1>0, <3>1, <2>6 DEF Passes, Request
      <3> QED BY <2>1, <2>3, <3>2, PassingTries
    <2> QED BY <2>7, <2>8
  <1> QED BY <1>1, <1>2, <1>3, <1>4, <1>5

LEMMA InitTries == Init => TriesInv
  <1> SUFFICES ASSUME Init PROVE TriesInv OBVIOUS
  <1>1. InFlight = {} /\ Counting = {}
    BY DEF Init, InFlight, Counting, Idle
  <1>2. Cardinality(InFlight) = 0 /\ Cardinality(Counting) = 0
    BY <1>1, FS_EmptySet
  <1>3. Budget = 0
    BY MostFacts DEF Init, Budget
  <1>4. Accounted(0, 0)
    BY <1>2, <1>3, MostFacts DEF Init, Absent, Accounted
  <1> QED BY <1>4 DEF TriesInv

LEMMA TriesStep == IInv /\ IInv' /\ TriesInv /\ [Next]_vars => TriesInv'
  <1> SUFFICES ASSUME IInv, IInv', TriesInv, [Next]_vars PROVE TriesInv'
    OBVIOUS
  <1>1. CASE UNCHANGED vars
    <2>1. InFlight' = InFlight /\ Counting' = Counting
      BY <1>1 DEF vars, InFlight, Counting
    <2> QED BY <1>1, <2>1, Sizes, QuietTries DEF vars
  <1>2. CASE Tick \/ LoseCounters
    BY <1>2, WindowTries
  <1>3. ASSUME NEW s \in Session, Serve(s) PROVE TriesInv'
    BY <1>3, EnterTries, LookUpTries, CountTries, GiveUpTries, ForgettingTries, OtherTries
       DEF Serve, VerifyEmail, ResetPassword
  <1> QED BY <1>1, <1>2, <1>3 DEF Next

LEMMA TriesInvariance == Spec => []TriesInv
  BY InitTries, TriesStep, Invariance, PTL DEF Spec

LEMMA AccountedBounds == IInv /\ TriesInv => TriesBounded
  <1> SUFFICES ASSUME IInv, TriesInv PROVE TriesBounded OBVIOUS
  <1>1. PICK e, h \in Nat : Accounted(e, h)
    BY DEF TriesInv
  <1>2. tries < 2 * Most + Budget
    BY <1>1, Numbers, MostFacts, Sizes, BudgetGrows DEF Accounted
  <1>3. (2 + faults) * Most = 2 * Most + Budget
    <2>1. \A n, k \in Nat : (2 + n) * k = 2 * k + n * k
      OBVIOUS
    <2> QED BY <2>1, Numbers, MostFacts DEF Budget
  <1> QED BY <1>2, <1>3 DEF TriesBounded, Most

(* For any number of requests at a time, attempts, faults and lives of codes and windows
   (a code not outliving a window): fewer wrong codes are compared with one code than two
   windows let through, and one more window's worth for every failed call of Redis. *)
THEOREM TriesAlwaysBounded == Spec => []TriesBounded
  BY AccountedBounds, Invariance, TriesInvariance, PTL
=============================================================================
