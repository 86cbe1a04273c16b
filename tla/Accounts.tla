------------------------------ MODULE Accounts ------------------------------
(***************************************************************************)
(* The account behind one e-mail address: registration, the six-digit      *)
(* codes that confirm the address, log in and reset a password, the count  *)
(* of wrong codes in Redis, and the edits of the profile (handlers/user.go,*)
(* usecase/user.go, db/users.go, cache/ratestore.go).  A request is served *)
(* by a goroutine in a sequence of statements without a transaction;       *)
(* several of them, of one customer, run at a time.  A tick of the clock   *)
(* is five minutes.                                                        *)
(***************************************************************************)
EXTENDS Integers, FiniteSets

CONSTANTS
  Session,      \* goroutines that serve requests for this address
  Code,         \* codes; one that nobody holds any more may be drawn again
  Wrong,        \* what a customer types who mistypes the code, has none or an old one
  NoCode,       \* NULL
  Password,     \* hashes of the passwords a customer may choose
  NoPassword,   \* the empty password of a registration
  Stated,       \* the phone number stated at the registration
  Phone,        \* phone numbers a customer may change to
  Unknown,      \* no value of a column at all
  NoRow,        \* a goroutine that holds no row
  MaxAttempts,  \* maxCodeAttempts
  CodeTTL,      \* life of a code in ticks (ten minutes)
  WindowTTL,    \* codeAttemptsTTL in ticks (fifteen minutes)
  MaxFaults     \* bound on the calls of Redis that fail

Forever == -1   \* the TTL of a key whose Expire was lost

ASSUME AccountsAssumption ==
  /\ IsFiniteSet(Session) /\ Session # {}
  /\ MaxAttempts \in Nat \ {0, 1} /\ MaxFaults \in Nat
  /\ CodeTTL \in Nat \ {0} /\ WindowTTL \in Nat \ {0}
  /\ CodeTTL <= WindowTTL
  /\ Wrong \notin Code /\ NoCode \notin Code \cup {Wrong}
  /\ NoPassword \notin Password
  /\ Unknown \notin Phone \cup Password \cup {NoPassword, Stated}

VARIABLES
  user,       \* the row of the address in table users
  attempts,   \* code_attempts:<email> in Redis, 0 without the key
  window,     \* ticks left of that key
  req,        \* what each goroutine serves and holds
  tries,      \* history: wrong codes that were compared with the code that is alive
  used,       \* history: codes that were accepted and cleared
  acked,      \* history: the values of the last edit of each column; Unknown once a
              \* row was written that had been read before that edit
  faults      \* calls of Redis that failed

vars == <<user, attempts, window, req, tries, used, acked, faults>>

Held == [code: Code \cup {NoCode}, password: Password \cup {NoPassword},
         phone: Phone \cup {Stated, Unknown}]

Row == [exists: BOOLEAN, verified: BOOLEAN, code: Code \cup {NoCode}, left: 0..CodeTTL,
        password: Password \cup {NoPassword}, phone: Phone \cup {Stated, Unknown}]

Request == [kind: {"none", "verify", "reset", "profile"},
            step: {"idle", "insert", "save", "check", "count", "block", "confirm",
                   "forgive", "read", "write", "clear"},
            code: Code \cup {Wrong, NoCode}, row: Held \cup {NoRow}, stale: BOOLEAN]

TypeOK ==
  /\ user \in Row
  /\ attempts \in Nat /\ window \in {Forever} \cup 0..WindowTTL
  /\ attempts = 0 <=> window = 0
  /\ req \in [Session -> Request]
  /\ tries \in Nat /\ used \subseteq Code /\ faults \in 0..MaxFaults
  /\ acked \in [password: Password \cup {NoPassword, Unknown},
               phone: Phone \cup {Stated, Unknown}]

Absent == [exists |-> FALSE, verified |-> FALSE, code |-> NoCode, left |-> 0,
           password |-> NoPassword, phone |-> Unknown]

Idle == [kind |-> "none", step |-> "idle", code |-> NoCode, row |-> NoRow, stale |-> FALSE]

Init ==
  /\ user = Absent
  /\ attempts = 0 /\ window = 0 /\ faults = 0
  /\ req = [s \in Session |-> Idle]
  /\ tries = 0 /\ used = {}
  /\ acked = [password |-> NoPassword, phone |-> Unknown]

At(s, step) == req[s].step = step
Hold(s, kind, step, c) ==
  req' = [req EXCEPT ![s] = [Idle EXCEPT !.kind = kind, !.step = step, !.code = c]]
Go(s, step) == Hold(s, "none", step, NoCode)
Done(s) == req' = [req EXCEPT ![s] = Idle]

rate == <<attempts, window, faults>>
history == <<tries, used, acked>>

(* GetByEmail finds the row. *)
Found == user.exists

(* Codes that are neither in the table nor in the hands of a goroutine. *)
Forgotten == Code \ ({user.code} \cup {req[s].code : s \in Session})

-----------------------------------------------------------------------------
(* Requests for a code.  The limits per IP only refuse: the request leaves no trace.
   The mail is sent later or lost; a code that was not delivered is never typed.      *)

(* A new address is inserted; an unconfirmed one gets a new code. *)
Register(s) ==
  /\ At(s, "idle")
  /\ ~user.verified
  /\ Go(s, IF Found THEN "save" ELSE "insert")
  /\ UNCHANGED <<user, rate, history>>

ResendVerificationCode(s) ==
  /\ At(s, "idle")
  /\ Found /\ ~user.verified
  /\ Go(s, "save")
  /\ UNCHANGED <<user, rate, history>>

(* A code is how one signs in; an unknown address gets the same answer and no code. *)
Login(s) ==
  /\ At(s, "idle")
  /\ Found
  /\ Go(s, "save")
  /\ UNCHANGED <<user, rate, history>>

ForgotPassword(s) == Login(s)

ExistsByUsernameOrEmail == user.exists

(* InsertWithTx: neither confirmed nor with a password. *)
Inserted == [Absent EXCEPT !.exists = TRUE, !.phone = Stated]

(* The check and the transaction of the INSERT; the unique index refuses the second of two
   registrations that pass the check together. *)
RegisterWithTransaction(s) ==
  /\ At(s, "insert")
  /\ ~ExistsByUsernameOrEmail
  /\ user' = Inserted
  /\ acked' = [acked EXCEPT !.phone = Stated]
  /\ Go(s, "save")
  /\ UNCHANGED <<rate, tries, used>>

(* UPDATE of the code and its deadline, whatever code was there. *)
SaveVerificationCode(s) ==
  /\ At(s, "save")
  /\ \E c \in Forgotten :
       /\ user' = [user EXCEPT !.code = c, !.left = CodeTTL]
       /\ used' = used \ {c}
  /\ tries' = 0
  /\ Done(s)
  /\ UNCHANGED <<rate, acked>>

-----------------------------------------------------------------------------
(* A code is entered, to confirm the address or sign in, or to set a password.        *)

(* Mutant: the attempts are not looked at. *)
EnterCode_Unlimited(s, kind) ==
  /\ At(s, "idle")
  /\ \E c \in {user.code, Wrong} \ {NoCode} : Hold(s, kind, "check", c)
  /\ UNCHANGED <<user, rate, history>>

(* A failed GET counts as no attempts. *)
EnterCode(s, kind) ==
  /\ At(s, "idle")
  /\ \E c \in {user.code, Wrong} \ {NoCode} :
       \/ /\ attempts < MaxAttempts
          /\ Hold(s, kind, "check", c)
          /\ UNCHANGED faults
       \/ /\ attempts >= MaxAttempts
          /\ Go(s, "block")
          /\ UNCHANGED faults
       \/ /\ attempts >= MaxAttempts /\ faults < MaxFaults
          /\ faults' = faults + 1
          /\ Hold(s, kind, "check", c)
  /\ UNCHANGED <<user, attempts, window, history>>

VerifyEmail(s) == EnterCode(s, "verify")
ResetPassword(s) == EnterCode(s, "reset")

Matches(c) == Found /\ user.code = c /\ user.left > 0

(* GetByEmailAndCode; a query that fails counts as a wrong code. *)
GetByEmailAndCode(s) ==
  /\ At(s, "check")
  /\ \/ /\ Matches(req[s].code)
        /\ Hold(s, req[s].kind, IF req[s].kind = "verify" THEN "confirm" ELSE "forgive",
                req[s].code)
        /\ UNCHANGED tries
     \/ /\ ~Matches(req[s].code)
        /\ Go(s, "count")
        /\ tries' = IF user.code # NoCode /\ user.left > 0 THEN tries + 1 ELSE tries
     \/ /\ Go(s, "count")
        /\ UNCHANGED tries
  /\ UNCHANGED <<user, rate, used, acked>>

(* UPDATE by id that VerifyEmailByCode, ClearVerificationCode and invalidateCode share:
   the address is confirmed and whatever code is in the row goes. *)
Cleared == [user EXCEPT !.verified = TRUE, !.code = NoCode, !.left = 0]

(* Mutant: the TTL is set on the second increment. *)
Incr_LateExpire(n) ==
  /\ attempts' = attempts + 1
  /\ n = attempts + 1
  /\ window' = IF n = 2 THEN WindowTTL ELSE window
  /\ UNCHANGED faults

(* INCR, and EXPIRE on the first.  The EXPIRE of the first may be lost, and so may the reply
   of any INCR that took effect, which returns 1 and sets no EXPIRE; an INCR that failed
   returns 1 too. *)
Incr(n) ==
  \/ /\ attempts' = attempts + 1
     /\ n = attempts + 1
     /\ window' = IF attempts = 0 THEN WindowTTL ELSE window
     /\ UNCHANGED faults
  \/ /\ faults < MaxFaults
     /\ faults' = faults + 1
     /\ attempts' = attempts + 1 /\ n = 1
     /\ window' = IF attempts = 0 THEN Forever ELSE window
  \/ /\ faults < MaxFaults
     /\ faults' = faults + 1
     /\ n = 1
     /\ UNCHANGED <<attempts, window>>

(* The wrong code is counted; the last one allowed takes the code away. *)
CountAttempt(s) ==
  /\ At(s, "count")
  /\ \E n \in 1..(attempts + 1) :
       /\ Incr(n)
       /\ IF n >= MaxAttempts THEN Go(s, "block") ELSE Done(s)
  /\ UNCHANGED <<user, history>>

invalidateCode(s) ==
  /\ At(s, "block")
  /\ user' = IF Found THEN Cleared ELSE user
  /\ tries' = 0
  /\ Done(s)
  /\ UNCHANGED <<rate, used, acked>>

(* The UPDATE of the row that was found.  If it fails, or its answer is lost after it took
   effect, a wrong code is counted. *)
VerifyEmailByCode(s) ==
  /\ At(s, "confirm")
  /\ \/ /\ user' = Cleared
        /\ used' = used \cup {req[s].code}
        /\ tries' = 0
        /\ Go(s, "forgive") \/ Go(s, "count")
     \/ /\ Go(s, "count")
        /\ UNCHANGED <<user, used, tries>>
  /\ UNCHANGED <<rate, acked>>

(* RateStore.Reset, which may be lost.  VerifyEmail answers with a token; ResetPassword
   goes on unless the new password is refused, and then leaves the code as it was. *)
ResetAttempts(s) ==
  /\ At(s, "forgive")
  /\ \/ /\ attempts' = 0 /\ window' = 0 /\ tries' = 0
        /\ UNCHANGED faults
     \/ /\ faults < MaxFaults
        /\ faults' = faults + 1
        /\ UNCHANGED <<attempts, window, tries>>
  /\ \/ Done(s)
     \/ req[s].kind = "reset" /\ Hold(s, "reset", "read", req[s].code)
  /\ UNCHANGED <<user, used, acked>>

-----------------------------------------------------------------------------
(* Changing the row: it is read whole, edited in memory and written back.             *)

TheRow == [code |-> user.code, password |-> user.password, phone |-> user.phone]

(* ResetPassword has hashed the new password and reads the row. *)
ReadForPassword(s) ==
  /\ At(s, "read")
  /\ \E w \in Password :
       req' = [req EXCEPT ![s].step = "write", ![s].row = [TheRow EXCEPT !.password = w]]
  /\ UNCHANGED <<user, rate, history>>

(* Mutant: the row is taken from GetProfile, which blanks the password. *)
UpdateProfile_Blank(s) ==
  /\ At(s, "idle")
  /\ user.verified
  /\ \E p \in Phone :
       req' = [req EXCEPT ![s] = [Idle EXCEPT !.kind = "profile", !.step = "write",
                !.row = [TheRow EXCEPT !.phone = p, !.password = NoPassword]]]
  /\ UNCHANGED <<user, rate, history>>

(* Only who has signed in edits a profile, and signing in confirms the address. *)
UpdateProfile(s) ==
  /\ At(s, "idle")
  /\ user.verified
  /\ \E p \in Phone :
       req' = [req EXCEPT ![s] = [Idle EXCEPT !.kind = "profile", !.step = "write",
                                              !.row = [TheRow EXCEPT !.phone = p]]]
  /\ UNCHANGED <<user, rate, history>>

Column(kind) == IF kind = "profile" THEN "phone" ELSE "password"

(* Mutant: the structure that is written back holds the code too. *)
Written_WithCode(row) ==
  [user EXCEPT !.code = row.code, !.password = row.password, !.phone = row.phone]

(* The columns of the UPDATE: the code, its deadline and the confirmation are not among
   them, whatever the row that was read held. *)
Written(row) == [user EXCEPT !.password = row.password, !.phone = row.phone]

(* UPDATE: every other goroutine that holds the row has it from before this edit. *)
UpdateUser(s) ==
  /\ At(s, "write")
  /\ LET r == req[s] c == Column(r.kind) IN
     /\ user' = Written(r.row)
     /\ acked' = [x \in DOMAIN acked |->
          IF x = c THEN r.row[x] ELSE IF r.stale THEN Unknown ELSE acked[x]]
     /\ req' = [x \in Session |->
          IF x # s THEN [req[x] EXCEPT !.stale = @ \/ At(x, "write")]
          ELSE IF r.kind = "profile" THEN Idle
          ELSE [r EXCEPT !.step = "clear", !.row = NoRow, !.stale = FALSE]]
  /\ UNCHANGED <<rate, tries, used>>

(* The code that set the password goes; a failure is only logged. *)
ClearVerificationCode(s) ==
  /\ At(s, "clear")
  /\ user' = Cleared
  /\ used' = used \cup {req[s].code}
  /\ tries' = 0
  /\ Done(s)
  /\ UNCHANGED <<rate, acked>>

-----------------------------------------------------------------------------
(* A statement fails or times out, or the process stops, between two steps. *)
GiveUp(s) ==
  /\ ~At(s, "idle")
  /\ IF At(s, "count") THEN faults < MaxFaults /\ faults' = faults + 1
                       ELSE UNCHANGED faults
  /\ Done(s)
  /\ UNCHANGED <<user, attempts, window, history>>

(* Redis restarts empty; or the counters were kept in a process that ends. *)
LoseCounters ==
  /\ attempts > 0 /\ faults < MaxFaults
  /\ attempts' = 0 /\ window' = 0
  /\ faults' = faults + 1
  /\ UNCHANGED <<user, req, history>>

(* Mutant: a key whose window has ended still counts. *)
Tick_Stale ==
  /\ user' = [user EXCEPT !.left = IF @ > 0 THEN @ - 1 ELSE 0]
  /\ window' = IF window > 0 THEN window - 1 ELSE window
  /\ tries' = IF user.left > 1 THEN tries ELSE 0
  /\ UNCHANGED <<attempts, req, used, acked, faults>>

(* Five minutes pass. *)
Tick ==
  /\ user' = [user EXCEPT !.left = IF @ > 0 THEN @ - 1 ELSE 0]
  /\ window' = IF window > 0 THEN window - 1 ELSE window
  /\ attempts' = IF window = 1 THEN 0 ELSE attempts
  /\ tries' = IF user.left > 1 THEN tries ELSE 0
  /\ UNCHANGED <<req, used, acked, faults>>

Serve(s) ==
  \/ Register(s) \/ ResendVerificationCode(s) \/ Login(s) \/ ForgotPassword(s)
  \/ RegisterWithTransaction(s) \/ SaveVerificationCode(s)
  \/ VerifyEmail(s) \/ ResetPassword(s) \/ GetByEmailAndCode(s)
  \/ CountAttempt(s) \/ invalidateCode(s) \/ VerifyEmailByCode(s) \/ ResetAttempts(s)
  \/ ReadForPassword(s) \/ UpdateProfile(s) \/ UpdateUser(s) \/ ClearVerificationCode(s)
  \/ GiveUp(s)

Next == (\E s \in Session : Serve(s)) \/ LoseCounters \/ Tick

Spec == Init /\ [][Next]_vars

(* Time passes. *)
FairSpec == Spec /\ WF_vars(Tick)

-----------------------------------------------------------------------------
(* Properties.                                                             *)

(* A code that was accepted is not in the row again: not by a profile or password edit
   that read the row before it was cleared and writes it back after
   (usecase/user.go:330-353, db/users.go:425-460). *)
UsedIsGone == user.code \notin used

(* How many wrong codes are compared with one code before it is taken away or a right
   one forgives them: the attempts of two windows and those in flight at the end of each.
   The first of the windows began before the code was asked for, or it would outlive the
   code (handlers/user.go:331-342). *)
TriesBounded ==
  tries < (2 + faults) * (MaxAttempts + Cardinality(Session) - 1)

(* The row holds the last edit of each column.  Only an edit whose row was read before
   another edit was written spoils the other's column, until its next edit
   (usecase/user.go:330-353, 425-435). *)
EditsKept == \A x \in DOMAIN acked : acked[x] \in {user[x], Unknown}

(* Exhausted attempts do not last: the window ends, however often codes are asked for
   and tried meanwhile, unless its EXPIRE was lost (cache/ratestore.go:47-49). *)
LockEnds == (attempts >= MaxAttempts /\ window # Forever) ~> (attempts < MaxAttempts)
=============================================================================
