--------------------------- MODULE AccountsProofs ---------------------------
(***************************************************************************)
(* The safety properties of Accounts, and that it implements RequestUnit,  *)
(* for any number of requests, lines, users and connections.               *)
(***************************************************************************)
EXTENDS Accounts, TLAPS

Active(r) == req[r] # None

\* A registration has flushed its row and not committed it.
Inserting(r) == Active(r) /\ req[r].op = "register" /\ pc[r] \in {"store", "commit"}

\* Which operation makes which call.
CallsOf(op) ==
  CASE op = "register" -> {"lookup", "insert", "store", "commit", "reply", "sms"}
    [] op = "change" -> {"load", "flush", "commit", "reply"}
    [] OTHER -> {"consume", "update", "write", "commit", "reply"}

\* The arguments of a request in flight.
ShapeOf(r) ==
  /\ pc[r] \in CallsOf(req[r].op)
  /\ req[r].phone.form = "international"
  /\ req[r].op \in {"register", "change"} => req[r].user \in Ids /\ req[r].new \in Passwords
  /\ req[r].op = "reset" /\ pc[r] # "consume" => req[r].new \in Passwords
  /\ req[r].op = "verify" =>
       req[r].new = None /\ (pc[r] \in {"update", "write", "commit"} => req[r].purpose = "phone_verify")

\* The rows it has written.
WritingOf(r) ==
  /\ pc[r] \notin {"store", "commit", "reply", "sms"} => req[r].rows = {}
  /\ req[r].op = "register" =>
       /\ pc[r] \in {"store", "commit", "reply", "sms"} => req[r].rows = {req[r].user}
       /\ pc[r] \in {"reply", "sms"} => users[req[r].user] # None
  /\ req[r].op = "change" =>
       /\ users[req[r].user] # None
       /\ pc[r] \in {"commit", "reply"} => req[r].rows = {req[r].user}
  /\ req[r].op # "register" => \A i \in req[r].rows : users[i] # None

\* An UPDATE reaches all users of the line that were there when it began.
Applies(r) == req[r].op = "reset" \/ (req[r].op = "verify" /\ req[r].purpose = "phone_verify")

KnownOf(r) ==
  /\ \A i \in req[r].known : users[i] # None /\ users[i].phone = req[r].phone
  /\ Applies(r) /\ pc[r] \in {"commit", "reply"} => req[r].known \subseteq req[r].rows
  /\ req[r].op = "verify" /\ pc[r] = "reply" => \A i \in req[r].rows : users[i].verified

Own(r) ==
  /\ pc[r] = "idle" <=> ~Active(r)
  /\ Active(r) => ShapeOf(r) /\ WritingOf(r) /\ KnownOf(r)

\* An identifier is drawn once.
Drawn ==
  \A r \in Requests :
    Active(r) /\ req[r].op = "register" /\ pc[r] \notin {"reply", "sms"} =>
      /\ users[req[r].user] = None
      /\ \A o \in Requests \ {r} :
           Active(o) /\ req[o].op = "register" => req[o].user # req[r].user

\* The unique index: while a row is flushed no other row has its phone.
Reserved ==
  \A r \in Requests :
    Inserting(r) =>
      /\ Registered(req[r].phone) = {}
      /\ \A o \in Requests \ {r} : Inserting(o) => req[o].phone # req[r].phone

\* One spelling per line.
Spelled == \A i \in Ids : users[i] # None => users[i].phone.form = "international"

IInv ==
  /\ TypeOK
  /\ \A r \in Requests : Own(r)
  /\ Drawn
  /\ Reserved
  /\ Spelled
  /\ OneUserPerLine
  /\ VerifiedTold
  /\ TextedRegistered

\* What one request does.
Acts(r) == Client(r) \/ Handle(r) \/ Rollback(r)

-----------------------------------------------------------------------------
(* Steps *)

LEMMA OthersStay ==
  ASSUME TypeOK, NEW r \in Requests, NEW q \in Requests, q # r, Acts(r)
  PROVE  pc'[q] = pc[q] /\ req'[q] = req[q]
<1>1. pc \in [Requests -> Calls] /\ req \in [Requests -> Locals \cup {None}]
  BY DEF TypeOK
<1>2. CASE Client(r)
  BY <1>1, <1>2 DEF Client, Register, Verify, Reset, Change, Begin
<1>3. CASE RegisterLookup(r) \/ RegisterInsert(r) \/ RegisterStore(r) \/ RegisterSms(r)
  BY <1>1, <1>3 DEF RegisterLookup, RegisterInsert, RegisterStore, RegisterSms, Refuse, Close, Goto
<1>4. CASE (\E accepted \in BOOLEAN : ChangeLoad(r, accepted)) \/ ChangeFlush(r) \/ UpdateBegin(r)
          \/ Update(r)
  BY <1>1, <1>4 DEF ChangeLoad, ChangeFlush, UpdateBegin, Update, Refuse, Close, Goto
<1>5. CASE Consume(r) \/ Commit(r) \/ Rollback(r)
  BY <1>1, <1>5 DEF Consume, Commit, Rollback, Refuse, Close, Goto
<1>6. CASE Reply(r)
  BY <1>1, <1>6 DEF Reply, Close, Goto
<1> QED
  BY <1>2, <1>3, <1>4, <1>5, <1>6 DEF Acts, Handle

\* Only a commit writes the database.
LEMMA OnlyCommits ==
  ASSUME NEW r \in Requests, Acts(r)
  PROVE  Commit(r) \/ UNCHANGED Database
<1>1. Client(r) => UNCHANGED Database
  BY DEF Client, Register, Verify, Reset, Change, Begin, Database
<1>2. Rollback(r) => UNCHANGED Database
  BY DEF Rollback, Refuse, Database
<1>3. Handle(r) => Commit(r) \/ UNCHANGED Database
  BY DEF Handle, RegisterLookup, RegisterInsert, RegisterStore, RegisterSms, ChangeLoad,
         ChangeFlush, Consume, UpdateBegin, Update, Reply, Refuse, Database
<1> QED
  BY <1>1, <1>2, <1>3 DEF Acts

\* Rows are added and keep their phone; a verified phone stays verified.
Grows ==
  \A i \in Ids :
    users[i] # None =>
      /\ users'[i] # None
      /\ users'[i].phone = users[i].phone
      /\ users[i].verified => users'[i].verified

\* What a commit makes of the table.
LEMMA Committed ==
  ASSUME IInv, NEW r \in Requests, Commit(r)
  PROVE  /\ req[r] \in Locals /\ pc[r] = "commit" /\ ShapeOf(r) /\ WritingOf(r) /\ KnownOf(r)
         /\ req[r].op # "verify" => req[r].new \in Passwords
         /\ \A i \in Ids :
              users'[i] = IF i \in req[r].rows THEN Written(r, i) ELSE users[i]
         /\ req[r].op = "register" => users[req[r].user] = None
<1>1. Active(r) /\ pc[r] = "commit"
  BY DEF IInv, Own, Commit
<1>2. req[r] \in Locals
  BY <1>1 DEF IInv, TypeOK, Active
<1>3. ShapeOf(r) /\ WritingOf(r) /\ KnownOf(r)
  BY <1>1 DEF IInv, Own
<1>4. req[r].op # "verify" => req[r].new \in Passwords
  BY <1>1, <1>2, <1>3 DEF ShapeOf, Locals, Operations
<1>5. req[r].op = "register" => users[req[r].user] = None
  BY <1>1 DEF IInv, Drawn
<1> QED
  BY <1>1, <1>2, <1>3, <1>4, <1>5 DEF Commit

LEMMA WrittenRow ==
  ASSUME IInv, NEW r \in Requests, Commit(r), NEW i \in Ids, i \in req[r].rows
  PROVE  /\ Written(r, i) \in Users
         /\ req[r].op = "register" =>
              /\ i = req[r].user
              /\ Written(r, i).phone = req[r].phone /\ ~Written(r, i).verified
         /\ req[r].op # "register" =>
              /\ users[i] # None
              /\ Written(r, i).phone = users[i].phone
              /\ Written(r, i).verified = (req[r].op = "verify" \/ users[i].verified)
<1>1. /\ req[r] \in Locals /\ pc[r] = "commit" /\ WritingOf(r)
      /\ req[r].op # "verify" => req[r].new \in Passwords
  BY Committed
<1>2. CASE req[r].op = "register"
  BY <1>1, <1>2 DEF Written, Users, WritingOf, Locals
<1>3. CASE req[r].op # "register"
  <2>1. users[i] # None /\ users[i] \in Users
    BY <1>1, <1>3 DEF WritingOf, IInv, TypeOK
  <2>2. CASE req[r].op = "verify"
    BY <2>1, <2>2 DEF Written, Users
  <2>3. CASE req[r].op # "verify"
    <3>1. Written(r, i) = [users[i] EXCEPT !.password = req[r].new]
      BY <1>3, <2>3 DEF Written
    <3> QED
      BY <1>1, <1>3, <2>1, <2>3, <3>1 DEF Users
  <2> QED
    BY <1>3, <2>1, <2>2, <2>3
<1> QED
  BY <1>2, <1>3

LEMMA UsersGrow ==
  ASSUME IInv, NEW r \in Requests, Acts(r)
  PROVE  Grows
<1>1. CASE UNCHANGED Database
  BY <1>1 DEF Grows, Database
<1>2. CASE Commit(r)
  <2> SUFFICES ASSUME NEW i \in Ids, users[i] # None
               PROVE  /\ users'[i] # None
                      /\ users'[i].phone = users[i].phone
                      /\ users[i].verified => users'[i].verified
    BY DEF Grows
  <2>1. CASE i \notin req[r].rows
    BY <1>2, <2>1, Committed
  <2>2. CASE i \in req[r].rows
    <3>1. users'[i] = Written(r, i) /\ (req[r].op = "register" => users[req[r].user] = None)
      BY <1>2, <2>2, Committed
    <3>2. req[r].op # "register"
      BY <1>2, <2>2, <3>1, WrittenRow
    <3>3. Written(r, i) # None
      BY <1>2, <2>2, WrittenRow, NoneAssumption
    <3> QED
      BY <1>2, <2>2, <3>1, <3>2, <3>3, WrittenRow
  <2> QED
    BY <2>1, <2>2
<1> QED
  BY <1>1, <1>2, OnlyCommits

-----------------------------------------------------------------------------
(* Types *)

LEMMA NormalizedPhone ==
  ASSUME NEW typed \in Phones
  PROVE  Normalized(typed) \in Phones /\ Normalized(typed).form = "international"
  BY DEF Normalized, Phones, Forms

LEMMA BeginTypes ==
  ASSUME TypeOK, NEW r \in Requests, NEW call \in Calls, NEW op \in Operations,
         NEW phone \in Phones, NEW purpose \in Purposes, NEW i \in Ids \cup {None},
         NEW new \in Passwords \cup {None}, Begin(r, call, op, phone, purpose, i, new)
  PROVE  /\ req'[r] = [op |-> op, phone |-> phone, purpose |-> purpose, user |-> i, new |-> new,
                       rows |-> {}, known |-> {j \in Ids : users[j] # None
                                                  /\ users[j].phone.line = phone.line}]
         /\ req'[r] \in Locals /\ pc'[r] = call /\ pc[r] = "idle"
         /\ TypeOK'
<1>1. [op |-> op, phone |-> phone, purpose |-> purpose, user |-> i, new |-> new, rows |-> {},
       known |-> {j \in Ids : users[j] # None /\ users[j].phone.line = phone.line}] \in Locals
  BY DEF Locals
<1> QED
  BY <1>1 DEF Begin, TypeOK, Database

\* The phone, the identifier and the password a client begins with.
LEMMA ClientBegins ==
  ASSUME TypeOK, NEW r \in Requests, Client(r)
  PROVE  \E call \in Calls, op \in Operations, phone \in Phones, purpose \in Purposes,
            i \in Ids \cup {None}, new \in Passwords \cup {None} :
           /\ Begin(r, call, op, phone, purpose, i, new)
           /\ op \in {"register", "change"} => i \in Ids /\ new \in Passwords
           /\ op = "register" => i \in SpareIds /\ call = "lookup"
           /\ op = "change" => call = "load" /\ users[i] # None /\ phone = users[i].phone
           /\ op # "change" => phone.form = "international"
           /\ op = "verify" => new = None
           /\ op \in {"verify", "reset"} => call = "consume"
<1>1. ASSUME NEW typed \in Phones, Register(r, typed)
      PROVE  /\ AnyOf(SpareIds) \in SpareIds /\ AnyOf(SparePasswords) \in Passwords
             /\ AnyOf(SpareIds) \in Ids
             /\ Begin(r, "lookup", "register", Normalized(typed), "phone_verify",
                      AnyOf(SpareIds), AnyOf(SparePasswords))
  BY <1>1 DEF Register, AnyOf, SpareIds, SparePasswords
<1>2. ASSUME NEW i \in Ids, Change(r, i)
      PROVE  /\ users[i] # None /\ users[i].phone \in Phones
             /\ AnyOf(SparePasswords) \in Passwords
             /\ Begin(r, "load", "change", users[i].phone, "password_reset", i,
                      AnyOf(SparePasswords))
  BY <1>2 DEF Change, AnyOf, SparePasswords, TypeOK, Users
<1>3. ASSUME NEW typed \in Phones, NEW strong \in BOOLEAN, Reset(r, typed, strong)
      PROVE  \E new \in Passwords \cup {None} :
               Begin(r, "consume", "reset", Normalized(typed), "password_reset", None, new)
  <2>1. (IF strong THEN AnyOf(SparePasswords) ELSE None) \in Passwords \cup {None}
    BY <1>3 DEF Reset, AnyOf, SparePasswords
  <2> QED
    BY <1>3, <2>1 DEF Reset
<1>4. ASSUME NEW typed \in Phones, NEW purpose \in Purposes, Verify(r, typed, purpose)
      PROVE  Begin(r, "consume", "verify", Normalized(typed), purpose, None, None)
  BY <1>4 DEF Verify
<1> HIDE DEF Begin
<1>5. CASE \E typed \in Phones : Register(r, typed)
  BY <1>1, <1>5, NormalizedPhone DEF Calls, Operations, Purposes
<1>6. CASE \E i \in Ids : Change(r, i)
  BY <1>2, <1>6 DEF Calls, Operations, Purposes
<1>7. CASE \E typed \in Phones, strong \in BOOLEAN : Reset(r, typed, strong)
  <2>1. PICK typed \in Phones, new \in Passwords \cup {None} :
          Begin(r, "consume", "reset", Normalized(typed), "password_reset", None, new)
    BY <1>3, <1>7
  <2> QED
    BY <2>1, NormalizedPhone DEF Calls, Operations, Purposes
<1>8. CASE \E typed \in Phones, purpose \in Purposes : Verify(r, typed, purpose)
  BY <1>4, <1>8, NormalizedPhone DEF Calls, Operations, Purposes
<1> QED
  BY <1>5, <1>6, <1>7, <1>8 DEF Client

LEMMA CloseTypes ==
  ASSUME TypeOK, NEW r \in Requests, Close(r)
  PROVE  pc' \in [Requests -> Calls] /\ req' \in [Requests -> Locals \cup {None}]
  BY DEF Close, TypeOK, Calls

LEMMA GotoTypes ==
  ASSUME TypeOK, NEW r \in Requests, NEW call \in Calls, Goto(r, call)
  PROVE  pc' \in [Requests -> Calls] /\ req' \in [Requests -> Locals \cup {None}]
  BY DEF Goto, TypeOK

LEMMA RefuseTypes ==
  ASSUME TypeOK, NEW r \in Requests, Refuse(r)
  PROVE  TypeOK'
<1>1. pc' \in [Requests -> Calls] /\ req' \in [Requests -> Locals \cup {None}]
  BY CloseTypes DEF Refuse
<1> QED
  BY <1>1 DEF Refuse, Database, TypeOK

\* A request that has not ended has its locals.
LEMMA LocalsOf ==
  ASSUME IInv, NEW r \in Requests, pc[r] # "idle"
  PROVE  Active(r) /\ req[r] \in Locals /\ ShapeOf(r) /\ WritingOf(r) /\ KnownOf(r)
  BY DEF IInv, Own, TypeOK, Active

LEMMA StepTypes ==
  ASSUME IInv, NEW r \in Requests, Acts(r)
  PROVE  TypeOK'
<1>0. TypeOK
  BY DEF IInv
<1>1. CASE Client(r)
  <2>1. PICK call \in Calls, op \in Operations, phone \in Phones, purpose \in Purposes,
             i \in Ids \cup {None}, new \in Passwords \cup {None} :
          Begin(r, call, op, phone, purpose, i, new)
    BY <1>0, <1>1, ClientBegins
  <2> QED
    BY <1>0, <2>1, BeginTypes
<1>2. CASE Rollback(r)
  BY <1>0, <1>2, RefuseTypes DEF Rollback
<1>3. CASE RegisterLookup(r)
  BY <1>0, <1>3, RefuseTypes, GotoTypes DEF RegisterLookup, TypeOK, Database, Calls
<1>4. CASE RegisterInsert(r)
  <2>1. req[r] \in Locals /\ req[r].user \in Ids
    BY <1>4, LocalsOf DEF RegisterInsert, ShapeOf, CallsOf, Locals, Operations
  <2>2. [req[r] EXCEPT !.rows = {req[r].user}] \in Locals
    BY <2>1 DEF Locals
  <2>3. CASE UniquePhone(r)
    BY <1>0, <1>4, <2>2, <2>3 DEF RegisterInsert, TypeOK, Database, Calls
  <2> QED
    BY <1>0, <1>4, <2>3, RefuseTypes DEF RegisterInsert
<1>5. CASE RegisterStore(r)
  <2>1. req[r].phone \in Phones
    BY <1>5, LocalsOf DEF RegisterStore, Locals
  <2> QED
    BY <1>0, <1>5, <2>1, GotoTypes DEF RegisterStore, TypeOK, Database, Calls, Purposes
<1>6. CASE RegisterSms(r)
  <2>1. req[r].user \in Ids
    BY <1>6, LocalsOf DEF RegisterSms, ShapeOf, CallsOf, Locals, Operations
  <2> QED
    BY <1>0, <1>6, <2>1, CloseTypes DEF RegisterSms, TypeOK, Database
<1>7. CASE \E accepted \in BOOLEAN : ChangeLoad(r, accepted)
  BY <1>0, <1>7, RefuseTypes, GotoTypes DEF ChangeLoad, TypeOK, Database, Calls
<1>8. CASE ChangeFlush(r)
  <2>1. req[r] \in Locals /\ req[r].user \in Ids
    BY <1>8, LocalsOf DEF ChangeFlush, ShapeOf, CallsOf, Locals, Operations
  <2>2. [req[r] EXCEPT !.rows = {req[r].user}] \in Locals
    BY <2>1 DEF Locals
  <2> QED
    BY <1>0, <1>8, <2>2 DEF ChangeFlush, TypeOK, Database, Calls
<1>9. CASE Consume(r)
  <2>1. pc' \in [Requests -> Calls] /\ req' \in [Requests -> Locals \cup {None}]
    BY <1>0, <1>9, CloseTypes, GotoTypes DEF Consume, Calls
  <2> QED
    BY <1>0, <1>9, <2>1 DEF Consume, TypeOK, Database
<1>10. CASE Update(r)
  <2>1. req[r] \in Locals
    BY <1>10, LocalsOf DEF Update
  <2>2. [req[r] EXCEPT !.rows = Registered(req[r].phone)] \in Locals
    BY <2>1 DEF Locals, Registered
  <2> QED
    BY <1>0, <1>10, <2>2 DEF Update, TypeOK, Database, Calls
<1>11. CASE Commit(r)
  <2>1. users' \in [Ids -> Users \cup {None}]
    <3>1. ASSUME NEW i \in Ids, i \in req[r].rows
          PROVE  Written(r, i) \in Users
      BY <1>11, <3>1, WrittenRow
    <3> QED
      BY <1>0, <1>11, <3>1 DEF Commit, TypeOK
  <2>2. /\ req[r] \in Locals
        /\ req[r].op # "verify" => req[r].new \in Passwords
        /\ req[r].op = "verify" => req[r].new = None
        /\ req[r].op = "register" => req[r].user \in Ids
    BY <1>11, Committed DEF ShapeOf
  <2>3. audit' \subseteq AuditRows
    BY <1>0, <1>11, <2>2 DEF Commit, AuditOf, AuditRows, TypeOK
  <2>4. passwords' \subseteq Passwords
    BY <1>0, <1>11, <2>2 DEF Commit, PasswordsOf, TypeOK, Locals
  <2>5. pc' \in [Requests -> Calls] /\ req' \in [Requests -> Locals \cup {None}]
    BY <1>0, <1>11, GotoTypes DEF Commit, Calls
  <2> QED
    BY <1>0, <1>11, <2>1, <2>3, <2>4, <2>5 DEF Commit, TypeOK
<1>12. CASE Reply(r)
  <2>1. req[r] \in Locals /\ ShapeOf(r) /\ pc[r] = "reply"
    BY <1>12, LocalsOf DEF Reply
  <2>2. Says(r) \subseteq Facts
    <3>1. CASE req[r].op \in {"register", "verify"}
      BY <2>1, <3>1 DEF Says, Facts, Locals
    <3>2. CASE req[r].op \notin {"register", "verify"}
      <4>1. req[r].new \in Passwords
        BY <2>1, <3>2 DEF ShapeOf, Locals, Operations
      <4> QED
        BY <3>2, <4>1 DEF Says, Facts
    <3> QED
      BY <3>1, <3>2
  <2>3. pc' \in [Requests -> Calls] /\ req' \in [Requests -> Locals \cup {None}]
    BY <1>0, <1>12, GotoTypes, CloseTypes DEF Reply, Calls
  <2> QED
    BY <1>0, <1>12, <2>2, <2>3 DEF Reply, TypeOK, Database
<1>13. CASE UpdateBegin(r)
  BY <1>0, <1>13, GotoTypes DEF UpdateBegin, TypeOK, Database, Calls
<1> QED
  BY <1>1, <1>2, <1>3, <1>4, <1>5, <1>6, <1>7, <1>8, <1>9, <1>10, <1>11, <1>12, <1>13
     DEF Acts, Handle

-----------------------------------------------------------------------------
(* What a request knows of itself *)

LEMMA OwnStays ==
  ASSUME IInv, NEW q \in Requests, Grows, pc'[q] = pc[q], req'[q] = req[q]
  PROVE  Own(q)'
<1>1. (pc[q] = "idle" <=> ~Active(q)) /\ (Active(q)' <=> Active(q))
  BY DEF IInv, Own, Active
<1>2. ASSUME Active(q)
      PROVE  ShapeOf(q)' /\ WritingOf(q)' /\ KnownOf(q)'
  <2>1. req[q] \in Locals /\ ShapeOf(q) /\ WritingOf(q) /\ KnownOf(q)
    BY <1>1, <1>2, LocalsOf
  <2>2. ShapeOf(q)'
    BY <2>1 DEF ShapeOf
  <2>3. req[q].rows \subseteq Ids /\ req[q].known \subseteq Ids
    BY <2>1 DEF Locals
  <2>4. req[q].op \in {"register", "change"} => req[q].user \in Ids
    BY <2>1 DEF ShapeOf
  <2>5. WritingOf(q)'
    BY <2>1, <2>3, <2>4 DEF WritingOf, Grows
  <2>6. KnownOf(q)'
    BY <2>1, <2>3 DEF KnownOf, WritingOf, Grows, Applies
  <2> QED
    BY <2>2, <2>5, <2>6
<1> QED
  BY <1>1, <1>2 DEF Own

LEMMA OwnCloses ==
  ASSUME TypeOK, NEW r \in Requests, Close(r)
  PROVE  Own(r)'
  BY DEF Close, TypeOK, Own, Active

\* The same locals at a later call.
LEMMA OwnGoes ==
  ASSUME IInv, NEW r \in Requests, pc[r] # "idle", NEW call \in Calls \ {"idle"},
         Goto(r, call), Grows, ShapeOf(r)', WritingOf(r)', KnownOf(r)'
  PROVE  Own(r)'
  BY LocalsOf DEF Goto, Own, Active, IInv, TypeOK

LEMMA OwnBegins ==
  ASSUME IInv, NEW r \in Requests, Client(r)
  PROVE  Own(r)'
<1>0. TypeOK
  BY DEF IInv
<1>1. PICK call \in Calls, op \in Operations, phone \in Phones, purpose \in Purposes,
           i \in Ids \cup {None}, new \in Passwords \cup {None} :
        /\ Begin(r, call, op, phone, purpose, i, new)
        /\ op \in {"register", "change"} => i \in Ids /\ new \in Passwords
        /\ op = "register" => call = "lookup"
        /\ op = "change" => call = "load" /\ users[i] # None /\ phone = users[i].phone
        /\ op # "change" => phone.form = "international"
        /\ op = "verify" => new = None
        /\ op \in {"verify", "reset"} => call = "consume"
  BY <1>0, ClientBegins
<1> DEFINE known == {j \in Ids : users[j] # None /\ users[j].phone.line = phone.line}
<1>2. /\ req'[r] = [op |-> op, phone |-> phone, purpose |-> purpose, user |-> i, new |-> new,
                    rows |-> {}, known |-> known]
      /\ req'[r] \in Locals /\ pc'[r] = call
  BY <1>0, <1>1, BeginTypes
<1>3. users' = users
  BY <1>1 DEF Begin, Database
<1>4. phone.form = "international"
  BY <1>1 DEF IInv, Spelled
<1>5. \A j \in known : users[j] # None /\ users[j].phone = phone
  <2> SUFFICES ASSUME NEW j \in known
               PROVE  users[j].phone = phone
    OBVIOUS
  <2>1. users[j].phone \in Phones /\ users[j].phone.form = "international"
    BY <1>0 DEF IInv, Spelled, TypeOK, Users
  <2> QED
    BY <1>4, <2>1 DEF Phones
<1>6. ShapeOf(r)'
  BY <1>1, <1>2, <1>4 DEF ShapeOf, CallsOf, Operations
<1> HIDE DEF known
<1>7. WritingOf(r)' /\ KnownOf(r)'
  BY <1>1, <1>2, <1>3, <1>5 DEF WritingOf, KnownOf, Operations
<1>8. Active(r)' /\ pc'[r] # "idle"
  BY <1>1, <1>2, NoneAssumption DEF Active, Operations
<1> QED
  BY <1>6, <1>7, <1>8 DEF Own

LEMMA OwnHandles ==
  ASSUME IInv, NEW r \in Requests, Acts(r), ~Client(r)
  PROVE  Own(r)'
<1>0. TypeOK /\ Grows
  BY UsersGrow DEF IInv
<1>1. pc[r] # "idle"
  BY DEF Acts, Handle, Rollback, Reply, RegisterLookup, RegisterInsert, RegisterStore,
         RegisterSms, ChangeLoad, ChangeFlush, Consume, UpdateBegin, Update, Commit
<1>2. req[r] \in Locals /\ ShapeOf(r) /\ WritingOf(r) /\ KnownOf(r) /\ Active(r)
  BY <1>1, LocalsOf
<1>3. ASSUME NEW call \in Calls \ {"idle"}, Goto(r, call)
      PROVE  pc'[r] = call /\ req' = req
  BY <1>0, <1>3 DEF Goto, TypeOK
<1>4. CASE Rollback(r) \/ RegisterSms(r)
  BY <1>0, <1>4, OwnCloses DEF Rollback, Refuse, RegisterSms
<1>5. CASE RegisterLookup(r)
  <2>1. CASE Goto(r, "insert") /\ UNCHANGED Database
    <3>1. pc'[r] = "insert" /\ req' = req /\ users' = users /\ pc[r] = "lookup"
      BY <1>3, <1>5, <2>1 DEF Database, RegisterLookup, Calls
    <3>2. ShapeOf(r)' /\ WritingOf(r)' /\ KnownOf(r)'
      BY <1>2, <3>1 DEF ShapeOf, WritingOf, KnownOf, Applies, CallsOf, Operations, Locals
    <3> QED
      BY <1>0, <1>1, <2>1, <3>2, OwnGoes DEF Calls
  <2> QED
    BY <1>0, <1>5, <2>1, OwnCloses DEF RegisterLookup, Refuse
<1>6. CASE RegisterStore(r)
  <2>1. pc'[r] = "commit" /\ req' = req /\ users' = users /\ pc[r] = "store" /\ Goto(r, "commit")
    BY <1>3, <1>6 DEF Database, RegisterStore, Calls
  <2>2. ShapeOf(r)' /\ WritingOf(r)' /\ KnownOf(r)'
    BY <1>2, <2>1 DEF ShapeOf, WritingOf, KnownOf, Applies, CallsOf, Operations, Locals
  <2> QED
    BY <1>0, <1>1, <2>1, <2>2, OwnGoes DEF Calls
<1>7. CASE \E accepted \in BOOLEAN : ChangeLoad(r, accepted)
  <2>1. CASE Goto(r, "flush") /\ UNCHANGED Database
    <3>1. pc'[r] = "flush" /\ req' = req /\ users' = users /\ pc[r] = "load"
      BY <1>3, <1>7, <2>1 DEF Database, ChangeLoad, Calls
    <3>2. ShapeOf(r)' /\ WritingOf(r)' /\ KnownOf(r)'
      BY <1>2, <3>1 DEF ShapeOf, WritingOf, KnownOf, Applies, CallsOf, Operations, Locals
    <3> QED
      BY <1>0, <1>1, <2>1, <3>2, OwnGoes DEF Calls
  <2> QED
    BY <1>0, <1>7, <2>1, OwnCloses DEF ChangeLoad, Refuse
<1>8. CASE Consume(r)
  <2>1. users' = users /\ pc[r] = "consume"
    BY <1>8 DEF Consume, Database
  <2>2. CASE Close(r)
    BY <1>0, <2>2, OwnCloses
  <2>3. CASE Goto(r, "reply") /\ req[r].op = "verify" /\ req[r].purpose = "password_reset"
    <3>1. pc'[r] = "reply" /\ req' = req
      BY <1>3, <2>3 DEF Calls
    <3>2. ShapeOf(r)' /\ WritingOf(r)' /\ KnownOf(r)'
      BY <1>2, <2>1, <2>3, <3>1 DEF ShapeOf, WritingOf, KnownOf, Applies, CallsOf
    <3> QED
      BY <1>0, <1>1, <2>3, <3>2, OwnGoes DEF Calls
  <2>4. CASE /\ Goto(r, "update")
             /\ ~(req[r].op = "reset" /\ req[r].new = None)
             /\ ~(req[r].op = "verify" /\ req[r].purpose = "password_reset")
    <3>1. pc'[r] = "update" /\ req' = req
      BY <1>3, <2>4 DEF Calls
    <3>2. ShapeOf(r)'
      BY <1>2, <2>1, <2>4, <3>1 DEF ShapeOf, CallsOf, Operations, Locals, Purposes
    <3>3. WritingOf(r)' /\ KnownOf(r)'
      BY <1>2, <2>1, <2>4, <3>1 DEF ShapeOf, WritingOf, KnownOf, Applies, CallsOf, Operations,
           Locals
    <3> QED
      BY <1>0, <1>1, <2>4, <3>2, <3>3, OwnGoes DEF Calls
  <2> QED
    BY <1>8, <2>2, <2>3, <2>4 DEF Consume
<1>9. ASSUME NEW call \in {"store", "commit"}, NEW rows \in SUBSET Ids,
             pc'[r] = call, req' = [req EXCEPT ![r].rows = rows], users' = users,
             WritingOf(r)', KnownOf(r)', ShapeOf(r)'
      PROVE  Own(r)'
  <2>1. [req[r] EXCEPT !.rows = rows] \in Locals
    BY <1>2 DEF Locals
  <2>2. Active(r)'
    BY <1>0, <1>9, <2>1, NoneAssumption DEF Active, TypeOK
  <2> QED
    BY <1>9, <2>2 DEF Own
<1>10. CASE RegisterInsert(r) /\ UniquePhone(r)
  <2>1. /\ pc'[r] = "store" /\ pc[r] = "insert" /\ users' = users
        /\ req' = [req EXCEPT ![r].rows = {req[r].user}]
    BY <1>0, <1>10 DEF RegisterInsert, Database, TypeOK
  <2>2. req'[r] = [req[r] EXCEPT !.rows = {req[r].user}] /\ req[r].user \in Ids
    BY <1>0, <1>2, <2>1 DEF TypeOK, ShapeOf, CallsOf, Locals, Operations
  <2>3. req[r].op = "register"
    BY <1>2, <2>1 DEF ShapeOf, CallsOf, Locals, Operations
  <2>4. ShapeOf(r)' /\ WritingOf(r)' /\ KnownOf(r)'
    BY <1>2, <2>1, <2>2, <2>3 DEF ShapeOf, WritingOf, KnownOf, Applies, CallsOf, Locals
  <2>5. {req[r].user} \in SUBSET Ids
    BY <2>2
  <2> QED
    BY <1>9, <2>1, <2>4, <2>5
<1>11. CASE RegisterInsert(r) /\ ~UniquePhone(r)
  BY <1>0, <1>11, OwnCloses DEF RegisterInsert, Refuse
<1>12. CASE ChangeFlush(r)
  <2>1. /\ pc'[r] = "commit" /\ pc[r] = "flush" /\ users' = users
        /\ req' = [req EXCEPT ![r].rows = {req[r].user}]
    BY <1>0, <1>12 DEF ChangeFlush, Database, TypeOK
  <2>2. req'[r] = [req[r] EXCEPT !.rows = {req[r].user}] /\ req[r].user \in Ids
    BY <1>0, <1>2, <2>1 DEF TypeOK, ShapeOf, CallsOf, Locals, Operations
  <2>3. req[r].op = "change"
    BY <1>2, <2>1 DEF ShapeOf, CallsOf, Locals, Operations
  <2>4. ShapeOf(r)' /\ WritingOf(r)' /\ KnownOf(r)'
    BY <1>2, <2>1, <2>2, <2>3 DEF ShapeOf, WritingOf, KnownOf, Applies, CallsOf, Locals
  <2>5. {req[r].user} \in SUBSET Ids
    BY <2>2
  <2> QED
    BY <1>9, <2>1, <2>4, <2>5
<1>13. CASE Update(r)
  <2>1. /\ pc'[r] = "commit" /\ pc[r] = "write" /\ users' = users
        /\ req' = [req EXCEPT ![r].rows = Registered(req[r].phone)]
    BY <1>0, <1>13 DEF Update, Database, TypeOK
  <2>2. /\ req'[r] = [req[r] EXCEPT !.rows = Registered(req[r].phone)]
        /\ Registered(req[r].phone) \in SUBSET Ids
    BY <1>0, <2>1 DEF TypeOK, Registered
  <2>3. req[r].op \in {"verify", "reset"}
    BY <1>2, <2>1 DEF ShapeOf, CallsOf, Locals, Operations
  <2>4. req[r].known \subseteq Registered(req[r].phone)
    BY <1>2 DEF KnownOf, Registered, Locals
  <2>5. \A i \in Registered(req[r].phone) : users[i] # None
    BY DEF Registered
  <2>6. ShapeOf(r)' /\ WritingOf(r)' /\ KnownOf(r)'
    BY <1>2, <2>1, <2>2, <2>3, <2>4, <2>5 DEF ShapeOf, WritingOf, KnownOf, Applies, CallsOf, Locals
  <2> QED
    BY <1>9, <2>1, <2>2, <2>6
<1>14. CASE Commit(r)
  <2>1. pc'[r] = "reply" /\ pc[r] = "commit" /\ req' = req /\ Goto(r, "reply")
    BY <1>3, <1>14 DEF Commit, Calls
  <2>2. ShapeOf(r)'
    BY <1>2, <2>1 DEF ShapeOf, CallsOf, Operations, Locals
  <2>3. req[r].rows \subseteq Ids /\ req[r].known \subseteq Ids
    BY <1>2 DEF Locals
  <2>4. ASSUME NEW i \in req[r].rows
        PROVE  users'[i] # None /\ (req[r].op = "verify" => users'[i].verified)
    <3>1. users'[i] = Written(r, i) /\ Written(r, i) \in Users
      BY <1>14, <2>3, WrittenRow, Committed
    <3> QED
      BY <1>14, <2>3, <3>1, WrittenRow, NoneAssumption
  <2>5. WritingOf(r)'
    BY <1>2, <2>1, <2>4 DEF WritingOf
  <2>6. KnownOf(r)'
    BY <1>0, <1>2, <2>1, <2>3, <2>4 DEF KnownOf, Grows, Applies
  <2> QED
    BY <1>0, <1>1, <2>1, <2>2, <2>5, <2>6, OwnGoes DEF Calls
<1>15. CASE Reply(r)
  <2>1. CASE req[r].op = "register"
    <3>1. pc'[r] = "sms" /\ req' = req /\ users' = users /\ pc[r] = "reply" /\ Goto(r, "sms")
      BY <1>3, <1>15, <2>1 DEF Database, Reply, Calls
    <3>2. ShapeOf(r)' /\ WritingOf(r)' /\ KnownOf(r)'
      BY <1>2, <2>1, <3>1 DEF ShapeOf, WritingOf, KnownOf, Applies, CallsOf
    <3> QED
      BY <1>0, <1>1, <3>1, <3>2, OwnGoes DEF Calls
  <2>2. CASE req[r].op # "register"
    BY <1>0, <1>15, <2>2, OwnCloses DEF Reply
  <2> QED
    BY <2>1, <2>2
<1>16. CASE UpdateBegin(r)
  <2>1. /\ pc'[r] = "write" /\ req' = req /\ users' = users /\ pc[r] = "update"
        /\ Goto(r, "write")
    BY <1>3, <1>16 DEF Database, UpdateBegin, Calls
  <2>2. ShapeOf(r)' /\ WritingOf(r)' /\ KnownOf(r)'
    BY <1>2, <2>1 DEF ShapeOf, WritingOf, KnownOf, Applies, CallsOf, Operations, Locals
  <2> QED
    BY <1>0, <1>1, <2>1, <2>2, OwnGoes DEF Calls
<1> QED
  BY <1>4, <1>5, <1>6, <1>7, <1>8, <1>10, <1>11, <1>12, <1>13, <1>14, <1>15, <1>16 DEF Acts, Handle

LEMMA StepOwn ==
  ASSUME IInv, NEW r \in Requests, Acts(r), NEW q \in Requests
  PROVE  Own(q)'
  BY OwnBegins, OwnHandles, OwnStays, OthersStay, UsersGrow DEF IInv

-----------------------------------------------------------------------------
(* The table *)

LEMMA ClientArguments ==
  ASSUME IInv, NEW r \in Requests, Client(r)
  PROVE  /\ pc'[r] \in {"lookup", "load", "consume"} /\ users' = users
         /\ req'[r].op = "register" => req'[r].user \in SpareIds
<1>0. TypeOK
  BY DEF IInv
<1>1. PICK call \in Calls, op \in Operations, phone \in Phones, purpose \in Purposes,
           i \in Ids \cup {None}, new \in Passwords \cup {None} :
        /\ Begin(r, call, op, phone, purpose, i, new)
        /\ op = "register" => i \in SpareIds /\ call = "lookup"
        /\ op = "change" => call = "load"
        /\ op \in {"verify", "reset"} => call = "consume"
  BY <1>0, ClientBegins
<1>2. /\ req'[r] = [op |-> op, phone |-> phone, purpose |-> purpose, user |-> i, new |-> new,
                    rows |-> {}, known |-> {j \in Ids : users[j] # None
                                               /\ users[j].phone.line = phone.line}]
      /\ pc'[r] = call
  BY <1>0, <1>1, BeginTypes
<1> QED
  BY <1>1, <1>2 DEF Operations, Begin, Database

LEMMA CommitReplies ==
  ASSUME TypeOK, NEW r \in Requests, Commit(r)
  PROVE  pc'[r] = "reply"
  BY DEF TypeOK, Commit, Goto

\* A request in flight keeps its arguments, and its commit comes before the
\* answer.
LEMMA Keeps ==
  ASSUME IInv, NEW r \in Requests, Acts(r), ~Client(r), Active(r)'
  PROVE  /\ Active(r)
         /\ req'[r].op = req[r].op /\ req'[r].user = req[r].user
         /\ req'[r].phone = req[r].phone
         /\ pc[r] \in {"reply", "sms"} => pc'[r] \in {"reply", "sms"}
         /\ pc'[r] \in {"store", "commit"} =>
              \/ pc[r] \in {"store", "commit"}
              \/ req[r].op # "register"
              \/ UniquePhone(r) /\ ~InsertPending(r, req[r].phone)
<1>0. TypeOK
  BY DEF IInv
<1>1. pc \in [Requests -> Calls] /\ req \in [Requests -> Locals \cup {None}]
  BY <1>0 DEF TypeOK
<1>2. pc[r] # "idle"
  BY DEF Acts, Handle, Rollback, Reply, RegisterLookup, RegisterInsert, RegisterStore,
         RegisterSms, ChangeLoad, ChangeFlush, Consume, UpdateBegin, Update, Commit
<1>3. req[r] \in Locals /\ ShapeOf(r) /\ Active(r)
  BY <1>2, LocalsOf
<1>4. ~Close(r)
  BY <1>1 DEF Close, Active
<1>5. CASE RegisterLookup(r) \/ RegisterStore(r) \/ RegisterSms(r) \/ Rollback(r) \/ UpdateBegin(r)
  BY <1>1, <1>3, <1>4, <1>5 DEF Active, UpdateBegin, RegisterLookup, RegisterStore, RegisterSms, Rollback, Refuse, Goto
<1>6. CASE RegisterInsert(r)
  BY <1>1, <1>3, <1>4, <1>6 DEF Active, RegisterInsert, Waits, Refuse, Locals
<1>7. CASE ChangeFlush(r) \/ Update(r)
  BY <1>1, <1>3, <1>7 DEF Active, ChangeFlush, Update, Locals, ShapeOf, CallsOf, Operations
<1>8. CASE (\E accepted \in BOOLEAN : ChangeLoad(r, accepted)) \/ Consume(r)
  BY <1>1, <1>3, <1>4, <1>8 DEF Active, ChangeLoad, Consume, Refuse, Goto
<1>9. CASE Commit(r)
  BY <1>1, <1>3, <1>9 DEF Active, Commit, Goto
<1>10. CASE Reply(r)
  BY <1>1, <1>3, <1>4, <1>10 DEF Active, Reply, Goto
<1> QED
  BY <1>3, <1>5, <1>6, <1>7, <1>8, <1>9, <1>10 DEF Acts, Handle

\* Which rows a step leaves empty, and the phones of the others.
LEMMA RowsAfter ==
  ASSUME IInv, NEW r \in Requests, Acts(r), NEW i \in Ids, users'[i] # None
  PROVE  \/ users[i] # None /\ users'[i].phone = users[i].phone
         \/ /\ Commit(r) /\ req[r].op = "register" /\ i = req[r].user
            /\ users'[i].phone = req[r].phone /\ users[i] = None
<1>1. CASE UNCHANGED Database
  BY <1>1 DEF Database
<1>2. CASE Commit(r) /\ i \notin req[r].rows
  BY <1>2, Committed
<1>3. CASE Commit(r) /\ i \in req[r].rows
  BY <1>3, Committed, WrittenRow
<1> QED
  BY <1>1, <1>2, <1>3, OnlyCommits

LEMMA StepDrawn ==
  ASSUME IInv, NEW r \in Requests, Acts(r)
  PROVE  Drawn'
<1>0. TypeOK
  BY DEF IInv
<1>1. ASSUME NEW q \in Requests, Active(q)', req'[q].op = "register",
             pc'[q] \notin {"reply", "sms"}
      PROVE  users'[req'[q].user] = None
  <2>1. CASE q = r /\ Client(r)
    <3>1. req'[r].user \in SpareIds
      BY <1>1, <2>1, ClientArguments
    <3> QED
      BY <2>1, <3>1, ClientArguments DEF SpareIds
  <2>2. CASE q = r /\ ~Client(r)
    <3>1. users[req[r].user] = None /\ req'[r].user = req[r].user /\ ~Commit(r)
      BY <1>0, <1>1, <2>2, Keeps, CommitReplies DEF IInv, Drawn
    <3> QED
      BY <2>2, <3>1, OnlyCommits DEF Database
  <2>3. CASE q # r
    <3>1. /\ Active(q) /\ req[q].op = "register" /\ pc[q] \notin {"reply", "sms"}
          /\ req'[q].user = req[q].user /\ pc[q] # "idle"
      BY <1>0, <1>1, <2>3, OthersStay DEF Active, IInv, Own
    <3>2. users[req[q].user] = None /\ req[q].user \in Ids
      BY <3>1, LocalsOf DEF IInv, Drawn, ShapeOf
    <3>3. Commit(r) /\ req[r].op = "register" => req[q].user # req[r].user
      BY <2>3, <3>1, Committed, LocalsOf DEF IInv, Drawn
    <3> QED
      BY <3>1, <3>2, <3>3, RowsAfter
  <2> QED
    BY <2>1, <2>2, <2>3
<1>2. ASSUME NEW q \in Requests, Active(q)', req'[q].op = "register",
             pc'[q] \notin {"reply", "sms"},
             NEW o \in Requests \ {q}, Active(o)', req'[o].op = "register"
      PROVE  req'[o].user # req'[q].user
  <2>1. ASSUME NEW p \in Requests, p # r, Active(p)', Client(r), req'[r].op = "register"
        PROVE  req'[p].user # req'[r].user
    <3>1. req'[r].user \in SpareIds
      BY <2>1, ClientArguments
    <3>2. req'[p] = req[p] /\ p \in InFlight
      BY <1>0, <2>1, OthersStay DEF InFlight, Active
    <3> QED
      BY <3>1, <3>2 DEF SpareIds
  <2>2. CASE Client(r) /\ r \in {q, o}
    BY <1>2, <2>1, <2>2
  <2>3. CASE ~(Client(r) /\ r \in {q, o})
    <3>1. ASSUME NEW p \in {q, o}
          PROVE  /\ Active(p) /\ req'[p].op = req[p].op /\ req'[p].user = req[p].user
                 /\ pc[p] \in {"reply", "sms"} => pc'[p] \in {"reply", "sms"}
      <4>1. CASE p = r
        BY <1>2, <2>3, <4>1, Keeps
      <4>2. CASE p # r
        BY <1>0, <1>2, <4>2, OthersStay DEF Active
      <4> QED
        BY <4>1, <4>2
    <3> QED
      BY <1>2, <3>1 DEF IInv, Drawn
  <2> QED
    BY <2>2, <2>3
<1> QED
  BY <1>1, <1>2 DEF Drawn

LEMMA StepReserved ==
  ASSUME IInv, NEW r \in Requests, Acts(r)
  PROVE  Reserved'
<1>0. TypeOK
  BY DEF IInv
\* An insertion is pending already or begins with this step.
<1>1. ASSUME NEW q \in Requests, Inserting(q)'
      PROVE  /\ Active(q) /\ req[q].op = "register" /\ req'[q].phone = req[q].phone
             /\ Inserting(q) \/ (q = r /\ UniquePhone(r) /\ ~InsertPending(r, req[r].phone))
  <2>1. CASE q # r
    BY <1>0, <1>1, <2>1, OthersStay DEF Inserting, Active
  <2>2. CASE q = r
    <3>1. ~Client(r)
      BY <1>1, <2>2, ClientArguments DEF Inserting
    <3> QED
      BY <1>1, <2>2, <3>1, Keeps DEF Inserting, Active
  <2> QED
    BY <2>1, <2>2
<1>2. ASSUME NEW q \in Requests, Inserting(q)', Commit(r)
      PROVE  q # r /\ Inserting(q)
  BY <1>0, <1>1, <1>2 DEF Inserting, Commit, Goto, TypeOK
<1>3. ASSUME NEW q \in Requests, Inserting(q)'
      PROVE  Registered(req[q].phone)' = {}
  <2>1. Registered(req[q].phone) = {}
    BY <1>1, <1>3 DEF IInv, Reserved, UniquePhone
  <2>2. ASSUME NEW i \in Ids, users'[i] # None
        PROVE  users'[i].phone # req[q].phone
    <3>1. CASE users[i] # None /\ users'[i].phone = users[i].phone
      BY <2>1, <3>1 DEF Registered
    <3>2. CASE Commit(r) /\ req[r].op = "register" /\ users'[i].phone = req[r].phone
      <4>1. Inserting(r) /\ Inserting(q) /\ q # r
        BY <1>2, <1>3, <3>2, Committed, LocalsOf DEF Inserting
      <4> QED
        BY <3>2, <4>1 DEF IInv, Reserved
    <3> QED
      BY <2>2, <3>1, <3>2, RowsAfter
  <2> QED
    BY <1>1, <1>3, <2>2 DEF Registered
<1>4. ASSUME NEW q \in Requests, Inserting(q)', NEW o \in Requests \ {q}, Inserting(o)'
      PROVE  req'[o].phone # req'[q].phone
  <2>1. CASE Inserting(q) /\ Inserting(o)
    BY <1>1, <1>4, <2>1 DEF IInv, Reserved
  <2>2. ASSUME NEW p \in Requests \ {r}, Inserting(p), ~InsertPending(r, req[r].phone)
        PROVE  req[p].phone # req[r].phone
    BY <2>2 DEF InsertPending, Inserting
  <2> QED
    BY <1>1, <1>4, <2>1, <2>2
<1> QED
  BY <1>3, <1>4 DEF Reserved

LEMMA StepSpelled ==
  ASSUME IInv, NEW r \in Requests, Acts(r)
  PROVE  Spelled' /\ OneUserPerLine'
<1>1. ASSUME NEW i \in Ids, users'[i] # None
      PROVE  users'[i].phone \in Phones /\ users'[i].phone.form = "international"
  <2>1. CASE users[i] # None /\ users'[i].phone = users[i].phone
    BY <2>1 DEF IInv, TypeOK, Spelled, Users
  <2>2. CASE Commit(r) /\ users'[i].phone = req[r].phone
    BY <2>2, Committed DEF ShapeOf, Locals
  <2> QED
    BY <1>1, <2>1, <2>2, RowsAfter
<1>2. ASSUME NEW i \in Ids, NEW j \in Ids, i # j, users'[i] # None, users'[j] # None,
             users'[i].phone.line = users'[j].phone.line
      PROVE  FALSE
  <2>1. users'[i].phone = users'[j].phone
    BY <1>1, <1>2 DEF Phones
  <2>2. ASSUME NEW a \in Ids, NEW b \in Ids, a # b, users'[a] # None, users'[b] # None,
               users'[a].phone = users'[b].phone, users[a] = None
        PROVE  FALSE
    <3>1. Commit(r) /\ req[r].op = "register" /\ a = req[r].user /\ users'[a].phone = req[r].phone
      BY <2>2, RowsAfter
    <3>2. users[b] # None /\ users[b].phone = req[r].phone
      BY <2>2, <3>1, RowsAfter
    <3>3. Registered(req[r].phone) = {}
      BY <3>1, Committed, LocalsOf DEF IInv, Reserved, Inserting
    <3> QED
      BY <3>2, <3>3 DEF Registered
  <2>3. users[i] # None /\ users[j] # None
    BY <1>2, <2>1, <2>2
  <2>4. users[i].phone = users[j].phone
    BY <1>2, <2>1, <2>3, RowsAfter
  <2> QED
    BY <1>2, <2>3, <2>4 DEF IInv, OneUserPerLine
<1> QED
  BY <1>1, <1>2 DEF Spelled, OneUserPerLine

\* What an answer says of a verified phone is in the table.
LEMMA SaysVerified ==
  ASSUME IInv, NEW r \in Requests, pc[r] = "reply", NEW i \in Ids,
         [kind |-> "verified", of |-> i] \in Says(r)
  PROVE  users[i] # None /\ users[i].verified
<1>1. req[r] \in Locals /\ WritingOf(r) /\ KnownOf(r)
  BY LocalsOf
<1>2. req[r].op = "verify" /\ req[r].purpose = "phone_verify" /\ i \in req[r].known
  BY DEF Says
<1> QED
  BY <1>1, <1>2 DEF KnownOf, WritingOf, Applies

LEMMA StepTold ==
  ASSUME IInv, NEW r \in Requests, Acts(r)
  PROVE  VerifiedTold' /\ TextedRegistered'
<1>0. Grows
  BY UsersGrow
<1>1. told' = told \/ (pc[r] = "reply" /\ told' = told \cup Says(r))
  BY DEF Acts, Client, Handle, Rollback, Reply, RegisterLookup, RegisterInsert, RegisterStore,
         RegisterSms, ChangeLoad, ChangeFlush, Consume, UpdateBegin, Update, Commit, Refuse, Register,
         Change, Verify, Reset, Begin
<1>2. texted' = texted \/ (pc[r] = "sms" /\ texted' = texted \cup {req[r].user})
  BY DEF Acts, Client, Handle, Rollback, Reply, RegisterLookup, RegisterInsert, RegisterStore,
         RegisterSms, ChangeLoad, ChangeFlush, Consume, UpdateBegin, Update, Commit, Refuse, Register,
         Change, Verify, Reset, Begin
<1>3. VerifiedTold'
  BY <1>0, <1>1, SaysVerified DEF VerifiedTold, IInv, Grows
<1>4. TextedRegistered'
  <2>1. pc[r] = "sms" => users[req[r].user] # None /\ req[r].user \in Ids
    BY LocalsOf DEF ShapeOf, CallsOf, Locals, Operations, WritingOf
  <2>2. texted \subseteq Ids
    BY DEF IInv, TypeOK
  <2> QED
    BY <1>0, <1>2, <2>1, <2>2 DEF TextedRegistered, IInv, Grows
<1> QED
  BY <1>3, <1>4

-----------------------------------------------------------------------------
(* Theorems *)

LEMMA InitInv == Init => IInv
<1> SUFFICES ASSUME Init
             PROVE  IInv
  OBVIOUS
<1>1. TypeOK
  BY DEF Init, TypeOK, Calls
<1>2. \A r \in Requests : Own(r)
  BY DEF Init, Own, Active
<1>3. Drawn /\ Reserved
  BY DEF Init, Drawn, Reserved, Inserting, Active
<1> QED
  BY <1>1, <1>2, <1>3 DEF Init, IInv, Spelled, OneUserPerLine, VerifiedTold, TextedRegistered

\* A code that is stored or ends, and a stutter, touch no request and no row.
LEMMA CodesStep ==
  ASSUME IInv, UNCHANGED <<pool, users, audit, passwords, pc, req, told, texted>>,
         codes' \subseteq Purposes \X Phones
  PROVE  IInv'
<1>1. TypeOK'
  BY DEF IInv, TypeOK
<1>2. \A r \in Requests : Own(r)'
  BY DEF IInv, Own, Active, ShapeOf, WritingOf, KnownOf, Applies
<1>3. Drawn' /\ Reserved'
  BY DEF IInv, Drawn, Reserved, Inserting, Active, Registered
<1> QED
  BY <1>1, <1>2, <1>3 DEF IInv, Spelled, OneUserPerLine, VerifiedTold, TextedRegistered

LEMMA NextInv == IInv /\ [Next]_vars => IInv'
<1> SUFFICES ASSUME IInv, [Next]_vars
             PROVE  IInv'
  OBVIOUS
<1>0. codes \subseteq Purposes \X Phones
  BY DEF IInv, TypeOK
<1>1. ASSUME NEW r \in Requests, Acts(r)
      PROVE  IInv'
  BY <1>1, StepTypes, StepOwn, StepDrawn, StepReserved, StepSpelled, StepTold DEF IInv
<1>2. ASSUME NEW purpose \in Purposes, NEW phone \in Phones, SendOtp(purpose, phone)
      PROVE  IInv'
  BY <1>0, <1>2, CodesStep, NormalizedPhone DEF SendOtp, Database
<1>3. ASSUME NEW key \in codes, CodeEnds(key)
      PROVE  IInv'
  BY <1>0, <1>3, CodesStep DEF CodeEnds, Database
<1>4. CASE UNCHANGED vars
  BY <1>0, <1>4, CodesStep DEF vars
<1> QED
  BY <1>1, <1>2, <1>3, <1>4 DEF Next, Acts

\* The invariant holds in every behaviour, for any pool of connections.
THEOREM Invariance == Spec => []IInv
BY InitInv, NextInv, PTL DEF Spec

\* Every variable keeps its type: among others, no audit row and no user row is
\* ever written without a password that passed the policy.
THEOREM TypeCorrect == Spec => []TypeOK
<1>1. IInv => TypeOK
  BY DEF IInv
<1> QED
  BY <1>1, Invariance, PTL

\* register() looks for the phone and inserts it in two statements; with the
\* unique index and the spelling that phone_validator stores, a line has one user.
THEOREM OneUserPerLineAlways == Spec => []OneUserPerLine
<1>1. IInv => OneUserPerLine
  BY DEF IInv
<1> QED
  BY <1>1, Invariance, PTL

\* verify_otp updates by phone number and never looks at the number of rows it
\* matched; what its answer says of known users is true.
THEOREM VerifiedToldAlways == Spec => []VerifiedTold
<1>1. IInv => VerifiedTold
  BY DEF IInv
<1> QED
  BY <1>1, Invariance, PTL

\* The background task of /register runs after the commit of get_db.
THEOREM TextedRegisteredAlways == Spec => []TextedRegistered
<1>1. IInv => TextedRegistered
  BY DEF IInv
<1> QED
  BY <1>1, Invariance, PTL

-----------------------------------------------------------------------------
(* The promise of RequestUnit *)

UnitFacts == Facts \cup AuditRows

\* How the bars change when only request r moves.
LEMMA BarsChange ==
  ASSUME IInv, NEW r \in Requests, Acts(r)
  PROVE  /\ phaseBar' = [phaseBar EXCEPT ![r] = PhaseOf(pc'[r])]
         /\ pendingBar' = [pendingBar EXCEPT ![r] = pendingBar'[r]]
         /\ phaseBar[r] = PhaseOf(pc[r]) /\ phaseBar'[r] = PhaseOf(pc'[r])
         /\ pendingBar[r] = Pending(r) /\ pendingBar'[r] = Pending(r)'
<1>1. \A q \in Requests \ {r} : pc'[q] = pc[q] /\ req'[q] = req[q]
  BY OthersStay DEF IInv
<1>2. \A q \in Requests \ {r} : Pending(q)' = Pending(q)
  BY <1>1 DEF Pending, AuditOf, PasswordsOf
<1> QED
  BY <1>1, <1>2 DEF phaseBar, pendingBar

\* Nothing is pending before the first flush and after the answer.
LEMMA PendingNothing ==
  ASSUME IInv, NEW r \in Requests, pc[r] \notin {"store", "commit", "reply"}
  PROVE  Pending(r) = {}
<1>1. CASE pc[r] \in {"idle", "sms"}
  BY <1>1 DEF Pending, PhaseOf
<1>2. CASE pc[r] \notin {"idle", "sms"}
  BY <1>2, LocalsOf DEF Pending, WritingOf
<1> QED
  BY <1>1, <1>2

\* What is pending are facts.
LEMMA PendingFacts ==
  ASSUME IInv, NEW r \in Requests
  PROVE  Pending(r) \subseteq UnitFacts
<1>1. CASE pc[r] \in {"idle", "sms"}
  BY <1>1 DEF Pending, PhaseOf
<1>2. CASE pc[r] \notin {"idle", "sms"}
  <2>1. req[r] \in Locals /\ ShapeOf(r)
    BY <1>2, LocalsOf
  <2>2. req[r].rows \subseteq Ids /\ PasswordsOf(r) \subseteq Passwords
    BY <2>1 DEF Locals, PasswordsOf
  <2>3. AuditOf(r) \subseteq AuditRows
    BY <2>1 DEF ShapeOf, AuditOf, AuditRows
  <2> QED
    BY <2>2, <2>3 DEF Pending, Facts, UnitFacts
<1> QED
  BY <1>1, <1>2

AllFacts == \A r \in Requests : Pending(r) \subseteq UnitFacts

LEMMA PendingFactsNext == IInv' => AllFacts'
<1>1. IInv => AllFacts
  BY PendingFacts DEF AllFacts
<1> QED
  BY <1>1, PTL

LEMMA StoreStays ==
  ASSUME UNCHANGED Database
  PROVE  storeBar' = storeBar
BY DEF Database, storeBar, FactsOf

\* A commit adds what was pending, and nothing else.
LEMMA StoreGrows ==
  ASSUME IInv, NEW r \in Requests, Commit(r)
  PROVE  storeBar' = storeBar \cup Pending(r)
<1>0. /\ req[r] \in Locals /\ pc[r] = "commit" /\ ShapeOf(r) /\ WritingOf(r)
      /\ req[r].op # "verify" => req[r].new \in Passwords
      /\ req[r].op = "register" => users[req[r].user] = None
      /\ req[r].rows \subseteq Ids
  BY Committed DEF Locals
<1> DEFINE Rows == {i \in Ids : users[i] # None}
           Verified == {i \in Ids : users[i] # None /\ users[i].verified}
<1>1. ASSUME NEW i \in Ids
      PROVE  /\ users'[i] # None <=> users[i] # None \/ i \in req[r].rows
             /\ users'[i] # None /\ users'[i].verified <=>
                  \/ users[i] # None /\ users[i].verified
                  \/ req[r].op = "verify" /\ i \in req[r].rows
  <2>1. CASE i \notin req[r].rows
    BY <2>1, Committed
  <2>2. CASE i \in req[r].rows
    <3>1. users'[i] = Written(r, i) /\ Written(r, i) # None
      BY <2>2, Committed, WrittenRow, NoneAssumption
    <3>2. CASE req[r].op = "register"
      BY <1>0, <2>2, <3>1, <3>2, WrittenRow
    <3>3. CASE req[r].op # "register"
      <4>1. /\ users[i] # None
            /\ Written(r, i).verified = (req[r].op = "verify" \/ users[i].verified)
        BY <2>2, <3>3, WrittenRow
      <4>2. Written(r, i).verified <=> req[r].op = "verify" \/ users[i].verified
        BY <4>1
      <4> QED
        BY <2>2, <3>1, <3>3, <4>1, <4>2
    <3> QED
      BY <3>2, <3>3
  <2> QED
    BY <2>1, <2>2
<1>2. Rows' = Rows \cup req[r].rows
  BY <1>0, <1>1
<1>3. Verified' = Verified \cup (IF req[r].op = "verify" THEN req[r].rows ELSE {})
  BY <1>0, <1>1
<1>4. audit' = audit \cup AuditOf(r) /\ passwords' = passwords \cup PasswordsOf(r)
  BY DEF Commit
<1>5. req[r].op # "register" => req[r].rows \subseteq Rows
  BY <1>0 DEF WritingOf
<1>6. req[r].rows = {} => AuditOf(r) = {} /\ PasswordsOf(r) = {}
  BY <1>0 DEF WritingOf, AuditOf, PasswordsOf
<1>7. /\ storeBar = [kind : {"user"}, of : Rows] \cup [kind : {"verified"}, of : Verified]
                    \cup [kind : {"password"}, of : passwords] \cup audit
      /\ storeBar' = [kind : {"user"}, of : Rows'] \cup [kind : {"verified"}, of : Verified']
                     \cup [kind : {"password"}, of : passwords'] \cup audit'
  BY DEF storeBar, FactsOf
<1>8. Pending(r) =
        (CASE req[r].op = "register" -> [kind : {"user"}, of : req[r].rows]
           [] req[r].op = "verify" -> [kind : {"verified"}, of : req[r].rows]
           [] OTHER -> {})
        \cup [kind : {"password"}, of : PasswordsOf(r)] \cup AuditOf(r)
  BY <1>0, <1>6 DEF Pending, PhaseOf
<1> HIDE DEF Rows, Verified
<1>9. CASE req[r].op = "register"
  BY <1>2, <1>3, <1>4, <1>7, <1>8, <1>9
<1>10. CASE req[r].op = "verify"
  BY <1>2, <1>3, <1>4, <1>5, <1>7, <1>8, <1>10
<1>11. CASE req[r].op \notin {"register", "verify"}
  BY <1>2, <1>3, <1>4, <1>5, <1>7, <1>8, <1>11
<1> QED
  BY <1>9, <1>10, <1>11

\* Answers tell what was pending.
LEMMA SaysPending ==
  ASSUME IInv, NEW r \in Requests, pc[r] = "reply"
  PROVE  Says(r) \subseteq Pending(r)
<1>1. req[r] \in Locals /\ ShapeOf(r) /\ WritingOf(r) /\ KnownOf(r)
  BY LocalsOf
<1>2. CASE req[r].known = {} \/ req[r].op = "register"
  BY <1>2 DEF Says
<1>3. CASE req[r].known # {} /\ req[r].op = "verify"
  <2>1. CASE req[r].purpose = "phone_verify"
    <3>1. req[r].known \subseteq req[r].rows /\ req[r].rows # {}
      BY <1>1, <1>3, <2>1 DEF KnownOf, Applies
    <3> QED
      BY <1>3, <2>1, <3>1 DEF Says, Pending, PhaseOf
  <2>2. CASE req[r].purpose # "phone_verify"
    BY <1>3, <2>2 DEF Says
  <2> QED
    BY <2>1, <2>2
<1>4. CASE req[r].known # {} /\ req[r].op \in {"change", "reset"}
  <2>1. req[r].new \in Passwords /\ req[r].rows # {}
    BY <1>1, <1>4 DEF ShapeOf, WritingOf, KnownOf, Applies
  <2>2. req[r].new \in PasswordsOf(r)
    BY <2>1, NoneAssumption DEF PasswordsOf
  <2> QED
    BY <1>4, <2>1, <2>2 DEF Says, Pending, PhaseOf
<1> QED
  BY <1>1, <1>2, <1>3, <1>4 DEF Locals, Operations

-----------------------------------------------------------------------------
(* Steps *)

\* The end of a request before its commit.
LEMMA ClosesOpen ==
  ASSUME IInv, IInv', NEW r \in Requests, Acts(r), pc[r] \notin {"idle", "reply", "sms"},
         Close(r), UNCHANGED <<Database, told>>
  PROVE  Unit!Rollback(r)
<1>1. pc'[r] = "idle"
  BY DEF Close, IInv, TypeOK
<1>2. Pending(r)' = {}
  BY <1>1, PendingNothing DEF Pending, PhaseOf
<1>3. PhaseOf(pc[r]) = "open" /\ PhaseOf(pc'[r]) = "closed"
  BY <1>1 DEF PhaseOf
<1> QED
  BY <1>2, <1>3, BarsChange, StoreStays DEF Unit!Rollback, Unit!Close

\* A step inside the transaction.
LEMMA Works ==
  ASSUME IInv, IInv', NEW r \in Requests, Acts(r), pc[r] \notin {"idle", "reply", "sms"},
         pc'[r] \notin {"idle", "reply", "sms"}, UNCHANGED <<Database, told>>,
         Pending(r) \subseteq Pending(r)'
  PROVE  Unit!Work(r)
<1>1. Pending(r)' \subseteq UnitFacts
  BY PendingFactsNext DEF AllFacts, UnitFacts
<1>2. PhaseOf(pc[r]) = "open" /\ PhaseOf(pc'[r]) = "open"
  BY DEF PhaseOf
<1>3. UNCHANGED phaseBar
  BY <1>2, BarsChange DEF phaseBar
<1> QED
  BY <1>1, <1>2, <1>3, BarsChange, StoreStays DEF Unit!Work, Unit!Adds, UnitFacts

LEMMA OpenStep ==
  ASSUME IInv, IInv', NEW r \in Requests, Acts(r), Client(r)
  PROVE  Unit!Open(r)
<1>1. pc[r] = "idle" /\ UNCHANGED <<Database, told>>
  BY DEF Client, Register, Verify, Reset, Change, Begin
<1>2. pc'[r] \in {"lookup", "load", "consume"}
  BY ClientArguments
<1>3. Pending(r) = {}
  BY <1>1, PendingNothing
<1>4. Pending(r)' \subseteq UnitFacts
  BY PendingFactsNext DEF AllFacts, UnitFacts
<1>5. PhaseOf(pc[r]) = "closed" /\ PhaseOf(pc'[r]) = "open"
  BY <1>1, <1>2 DEF PhaseOf
<1> QED
  BY <1>1, <1>3, <1>4, <1>5, BarsChange, StoreStays DEF Unit!Open, Unit!Adds, UnitFacts

\* Calls before the first flush.
LEMMA EarlyStep ==
  ASSUME IInv, IInv', NEW r \in Requests, Acts(r),
         \/ RegisterLookup(r) \/ RegisterInsert(r) \/ ChangeFlush(r) \/ UpdateBegin(r)
         \/ Update(r) \/ \E accepted \in BOOLEAN : ChangeLoad(r, accepted)
  PROVE  Unit!Work(r) \/ Unit!Rollback(r)
<1>0. pc \in [Requests -> Calls]
  BY DEF IInv, TypeOK
<1>1. /\ pc[r] \in {"lookup", "insert", "flush", "update", "write", "load"}
      /\ UNCHANGED <<Database, told>>
      /\ Close(r) \/ pc'[r] \in {"insert", "store", "write", "commit", "flush"}
  BY <1>0 DEF RegisterLookup, RegisterInsert, ChangeFlush, UpdateBegin, Update, ChangeLoad, Refuse, Goto
<1>2. Pending(r) = {}
  BY <1>1, PendingNothing
<1> QED
  BY <1>1, <1>2, ClosesOpen, Works

\* A consumption that ends the request, answers it or leads to the UPDATE.
LEMMA ConsumeStep ==
  ASSUME IInv, IInv', NEW r \in Requests, Acts(r), Consume(r)
  PROVE  Unit!Work(r) \/ Unit!Rollback(r) \/ Unit!Commit(r)
<1>0. pc \in [Requests -> Calls]
  BY DEF IInv, TypeOK
<1>1. pc[r] = "consume" /\ UNCHANGED <<Database, told>>
  BY DEF Consume
<1>2. Pending(r) = {}
  BY <1>1, PendingNothing
<1>3. CASE Close(r)
  BY <1>1, <1>3, ClosesOpen
<1>4. CASE Goto(r, "update")
  BY <1>0, <1>1, <1>2, <1>4, Works DEF Goto
<1>5. CASE Goto(r, "reply")
  <2>1. pc'[r] = "reply" /\ req' = req
    BY <1>0, <1>5 DEF Goto
  <2>2. req[r].rows = {}
    BY <1>1, LocalsOf DEF WritingOf
  <2>3. Pending(r)' = {}
    BY <2>1, <2>2 DEF Pending
  <2>4. PhaseOf(pc[r]) = "open" /\ PhaseOf(pc'[r]) = "committed"
    BY <1>1, <2>1 DEF PhaseOf
  <2>5. UNCHANGED pendingBar
    BY <1>2, <2>3, BarsChange DEF pendingBar
  <2> QED
    BY <1>1, <1>2, <2>3, <2>4, <2>5, BarsChange, StoreStays DEF Unit!Commit
<1> QED
  BY <1>3, <1>4, <1>5 DEF Consume

LEMMA StoreStep ==
  ASSUME IInv, IInv', NEW r \in Requests, Acts(r), RegisterStore(r)
  PROVE  Unit!Work(r)
<1>1. pc[r] = "store" /\ pc'[r] = "commit" /\ req' = req /\ UNCHANGED <<Database, told>>
  BY DEF RegisterStore, Goto, IInv, TypeOK
<1>2. Pending(r)' = Pending(r)
  BY <1>1 DEF Pending, PhaseOf, AuditOf, PasswordsOf
<1> QED
  BY <1>1, <1>2, Works

LEMMA CommitStep ==
  ASSUME IInv, IInv', NEW r \in Requests, Acts(r), Commit(r)
  PROVE  Unit!Commit(r)
<1>1. pc[r] = "commit" /\ pc'[r] = "reply" /\ req' = req /\ told' = told
  BY DEF Commit, Goto, IInv, TypeOK
<1>2. Pending(r)' = Pending(r)
  BY <1>1 DEF Pending, PhaseOf, AuditOf, PasswordsOf
<1>3. PhaseOf(pc[r]) = "open" /\ PhaseOf(pc'[r]) = "committed"
  BY <1>1 DEF PhaseOf
<1>4. UNCHANGED pendingBar
  BY <1>2, BarsChange DEF pendingBar
<1> QED
  BY <1>1, <1>3, <1>4, BarsChange, StoreGrows DEF Unit!Commit

LEMMA ReplyStep ==
  ASSUME IInv, IInv', NEW r \in Requests, Acts(r), Reply(r)
  PROVE  Unit!Reply(r)
<1>1. /\ pc[r] = "reply" /\ pc'[r] \in {"idle", "sms"}
      /\ UNCHANGED Database
      /\ told' = told \cup Says(r)
  BY DEF Reply, Close, Goto, IInv, TypeOK
<1>2. Pending(r)' = {}
  BY <1>1 DEF Pending, PhaseOf
<1>3. PhaseOf(pc[r]) = "committed" /\ PhaseOf(pc'[r]) = "closed"
  BY <1>1 DEF PhaseOf
<1>4. told \subseteq told' /\ told' \subseteq told \cup Pending(r)
  BY <1>1, SaysPending
<1> QED
  BY <1>1, <1>2, <1>3, <1>4, BarsChange, StoreStays DEF Unit!Reply, Unit!Close

\* The background task of a registration.
LEMMA SmsStep ==
  ASSUME IInv, IInv', NEW r \in Requests, Acts(r), RegisterSms(r)
  PROVE  UNCHANGED Unit!vars
<1>1. pc[r] = "sms" /\ pc'[r] = "idle" /\ UNCHANGED <<Database, told>>
  BY DEF RegisterSms, Close, IInv, TypeOK
<1>2. Pending(r) = {} /\ Pending(r)' = {} /\ PhaseOf(pc'[r]) = PhaseOf(pc[r])
  BY <1>1 DEF Pending, PhaseOf
<1> QED
  BY <1>1, <1>2, BarsChange, StoreStays DEF Unit!vars, phaseBar, pendingBar

\* Every step is a step of RequestUnit or invisible to it.
LEMMA StepImplements == IInv /\ IInv' /\ [Next]_vars => [Unit!Next]_(Unit!vars)
<1> SUFFICES ASSUME IInv, IInv', [Next]_vars
             PROVE  [Unit!Next]_(Unit!vars)
  OBVIOUS
<1>1. ASSUME NEW r \in Requests, Acts(r)
      PROVE  [Unit!Next]_(Unit!vars)
  <2>1. CASE Client(r)
    BY <1>1, <2>1, OpenStep DEF Unit!Next
  <2>2. CASE Rollback(r)
    <3>1. /\ pc[r] \notin {"idle", "reply", "sms"} /\ Close(r)
          /\ UNCHANGED <<Database, told>>
      BY <2>2 DEF Rollback, Refuse
    <3> QED
      BY <1>1, <3>1, ClosesOpen DEF Unit!Next
  <2>3. CASE \/ RegisterLookup(r) \/ RegisterInsert(r) \/ ChangeFlush(r) \/ UpdateBegin(r)
             \/ Update(r) \/ \E accepted \in BOOLEAN : ChangeLoad(r, accepted)
    BY <1>1, <2>3, EarlyStep DEF Unit!Next
  <2>4. CASE Consume(r)
    BY <1>1, <2>4, ConsumeStep DEF Unit!Next
  <2>5. CASE RegisterStore(r)
    BY <1>1, <2>5, StoreStep DEF Unit!Next
  <2>6. CASE Commit(r)
    BY <1>1, <2>6, CommitStep DEF Unit!Next
  <2>7. CASE Reply(r)
    BY <1>1, <2>7, ReplyStep DEF Unit!Next
  <2>8. CASE RegisterSms(r)
    BY <1>1, <2>8, SmsStep
  <2> QED
    BY <1>1, <2>1, <2>2, <2>3, <2>4, <2>5, <2>6, <2>7, <2>8 DEF Acts, Handle
<1>2. CASE UNCHANGED <<pool, users, audit, passwords, pc, req, told>>
  BY <1>2 DEF Unit!vars, phaseBar, pendingBar, storeBar, Pending, AuditOf, PasswordsOf
<1>3. ASSUME NEW purpose \in Purposes, NEW phone \in Phones, SendOtp(purpose, phone)
      PROVE  [Unit!Next]_(Unit!vars)
  BY <1>2, <1>3 DEF SendOtp, Database
<1>4. ASSUME NEW key \in codes, CodeEnds(key)
      PROVE  [Unit!Next]_(Unit!vars)
  BY <1>2, <1>4 DEF CodeEnds, Database
<1>5. CASE UNCHANGED vars
  BY <1>2, <1>5 DEF vars
<1> QED
  BY <1>1, <1>3, <1>4, <1>5 DEF Next, Acts

\* Registration, verification, password change and reset, interleaved in any
\* way over any pool, are transactions whose writes reach the database whole at
\* the commit of get_db, and clients are told of committed writes only.
THEOREM Implements == Spec => UnitOfWork
<1>1. Init => Unit!Init
  BY DEF Init, Unit!Init, phaseBar, pendingBar, storeBar, PhaseOf, Pending, FactsOf
<1> QED
  BY <1>1, StepImplements, Invariance, PTL DEF Spec, UnitOfWork, Unit!Spec
=============================================================================
