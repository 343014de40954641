----------------------- MODULE AuthSessionsImplements -----------------------
(***************************************************************************)
(* AuthSessions implements RequestUnit: under the mapping of the module    *)
(* every step of a request is the opening, the work, the commit or the end *)
(* of its transaction, and every step of the environment is invisible.     *)
(*                                                                         *)
(* It implements Revocation: a refresh admits and revokes its token, a     *)
(* logout revokes one, and a request that fails leaves what it has revoked.*)
(***************************************************************************)
EXTENDS AuthSessionsProofs

\* A step of one request leaves the transactions of the others alone.
Others(r) ==
  \A q \in Requests \ {r} : pc'[q] = pc[q] /\ pend'[q] = pend[q]

Grows(r) ==
  /\ pend[r].rows \subseteq pend'[r].rows
  /\ pend[r].inactive \subseteq pend'[r].inactive
  /\ pend[r].audit \subseteq pend'[r].audit

Stored == <<sessions, inactive, audit, held>>

\* FactsOf distributes over union and keeps inclusion.
LEMMA FactsOfUnion ==
  ASSUME NEW a, NEW b, NEW c, NEW d, NEW e, NEW f
  PROVE  /\ FactsOf(a \cup d, b \cup e, c \cup f) = FactsOf(a, b, c) \cup FactsOf(d, e, f)
         /\ a \subseteq d /\ b \subseteq e /\ c \subseteq f =>
              FactsOf(a, b, c) \subseteq FactsOf(d, e, f)
BY DEF FactsOf

\* The writes of a request are facts of RequestUnit.
LEMMA WritesAreFacts ==
  ASSUME NEW w \in Writes PROVE FactsOf(w.rows, w.inactive, w.audit) \subseteq
    Facts
<1>1. w.rows \subseteq Session /\ w.inactive \subseteq Ids /\ w.audit \subseteq AuditRow
  BY DEF Writes
<1> QED
  BY <1>1, FactsOfUnion DEF Facts, FactsOf

\* How the bars change when only request r moves.
LEMMA BarsChange ==
  ASSUME TypeOK, TypeOK', NEW r \in Requests, Others(r)
  PROVE  /\ phaseBar' = [phaseBar EXCEPT ![r] = PhaseOf(pc'[r])]
         /\ pendingBar' = [pendingBar EXCEPT ![r] =
              FactsOf(pend'[r].rows, pend'[r].inactive, pend'[r].audit)]
BY DEF phaseBar, pendingBar, Others

LEMMA BarsStored ==
  ASSUME UNCHANGED Stored PROVE UNCHANGED <<storeBar, toldBar>>
BY DEF Stored, storeBar, toldBar

\* The first step of a request opens its transaction.
LEMMA OpenStep ==
  ASSUME TypeOK, TypeOK', NEW r \in Requests, Others(r), UNCHANGED Stored,
         pc[r] = "idle", pc'[r] \notin {"idle", "reply"}, pend[r] = NoWrites
  PROVE  Unit!Open(r)
<1>1. pendingBar[r] = {}
  BY DEF pendingBar, NoWrites, FactsOf
<1>2. pendingBar'[r] \subseteq Facts
  BY WritesAreFacts DEF pendingBar, TypeOK
<1>3. phaseBar[r] = "closed" /\ PhaseOf(pc'[r]) = "open"
  BY DEF phaseBar, PhaseOf
<1> HIDE DEF TypeOK
<1>4. pendingBar' = [pendingBar EXCEPT ![r] = pendingBar'[r]]
  BY BarsChange DEF pendingBar
<1> QED
  BY <1>1, <1>2, <1>3, <1>4, BarsChange, BarsStored DEF Unit!Open, Unit!Adds

\* A later step adds work to the open transaction.
LEMMA WorkStep ==
  ASSUME TypeOK, TypeOK', NEW r \in Requests, Others(r), Grows(r), UNCHANGED
    Stored,
         pc[r] \notin {"idle", "reply"}, pc'[r] \notin {"idle", "reply"}
  PROVE  Unit!Work(r)
<1>1. pendingBar[r] \subseteq pendingBar'[r]
  BY FactsOfUnion DEF pendingBar, Grows
<1>2. pendingBar'[r] \subseteq Facts
  BY WritesAreFacts DEF pendingBar, TypeOK
<1>3. phaseBar[r] = "open" /\ PhaseOf(pc'[r]) = "open"
  BY DEF phaseBar, PhaseOf
<1>4. pendingBar' = [pendingBar EXCEPT ![r] = pendingBar'[r]]
  BY BarsChange DEF pendingBar
<1>5. UNCHANGED phaseBar
  BY <1>3, BarsChange DEF phaseBar
<1> QED
  BY <1>1, <1>2, <1>3, <1>4, <1>5, BarsStored DEF Unit!Work, Unit!Adds

\* The end of a request closes its transaction.
LEMMA CloseStep ==
  ASSUME TypeOK, TypeOK', NEW r \in Requests, End(r), UNCHANGED <<sessions,
    inactive, audit>>
  PROVE  Unit!Close(r)
<1>1. Others(r) /\ pc'[r] = "idle" /\ pend'[r] = NoWrites
  BY DEF End, Goto, Others, TypeOK
<1>2. FactsOf(pend'[r].rows, pend'[r].inactive, pend'[r].audit) = {}
  BY <1>1 DEF NoWrites, FactsOf
<1>3. PhaseOf(pc'[r]) = "closed"
  BY <1>1 DEF PhaseOf
<1>4. UNCHANGED storeBar
  BY DEF storeBar
<1> QED
  BY <1>1, <1>2, <1>3, <1>4, BarsChange DEF Unit!Close

\* A step that moves no request and changes no session is invisible.
LEMMA StutterStep ==
  ASSUME UNCHANGED <<sessions, inactive, audit, held, pc, pend>>
  PROVE  UNCHANGED Unit!vars
BY DEF Unit!vars, phaseBar, pendingBar, storeBar, toldBar

\* Every step of AuthSessions is a step of RequestUnit or invisible to it.
LEMMA StepImplements == IInv /\ IInv' /\ [Next]_vars => [Unit!Next]_(Unit!vars)
<1> SUFFICES ASSUME IInv, IInv', [Next]_vars PROVE [Unit!Next]_(Unit!vars)
  OBVIOUS
<1>1. ASSUME NEW r \in Requests, LoginUnknownPhone(r)
      PROVE [Unit!Next]_(Unit!vars)
  <2>1. pc[r] = "idle" /\ pc'[r] \notin {"idle", "reply"} /\ pend[r] = NoWrites
    BY <1>1 DEF LoginUnknownPhone, Begin, Goto, IInv, TypeOK, WritesInOrder,
      InOrder
  <2>2. Others(r) /\ UNCHANGED Stored
    BY <1>1 DEF LoginUnknownPhone, Begin, Goto, LogAudit, Others, Stored,
      database, clients, IInv, TypeOK
  <2> QED
    BY <2>1, <2>2, OpenStep DEF IInv, Unit!Next
<1>2. ASSUME NEW r \in Requests, NEW u \in Users, LoginRefused(r, u)
      PROVE [Unit!Next]_(Unit!vars)
  <2>1. pc[r] = "idle" /\ pc'[r] \notin {"idle", "reply"} /\ pend[r] = NoWrites
    BY <1>2 DEF LoginRefused, Begin, Goto, IInv, TypeOK, WritesInOrder, InOrder
  <2>2. Others(r) /\ UNCHANGED Stored
    BY <1>2 DEF LoginRefused, Begin, Goto, Others, Stored, database, clients,
      IInv, TypeOK
  <2> QED
    BY <2>1, <2>2, OpenStep DEF IInv, Unit!Next
<1>3. ASSUME NEW r \in Requests, NEW u \in Users, LoginWrongPassword(r, u)
      PROVE [Unit!Next]_(Unit!vars)
  <2>1. pc[r] = "idle" /\ pc'[r] \notin {"idle", "reply"} /\ pend[r] = NoWrites
    BY <1>3 DEF LoginWrongPassword, Begin, Goto, IInv, TypeOK, WritesInOrder,
      InOrder
  <2>2. Others(r) /\ UNCHANGED Stored
    BY <1>3 DEF LoginWrongPassword, Begin, Goto, Others, Stored, database,
      clients, IInv, TypeOK
  <2> QED
    BY <2>1, <2>2, OpenStep DEF IInv, Unit!Next
<1>4. ASSUME NEW r \in Requests, NEW u \in Users, LoginGranted(r, u)
      PROVE [Unit!Next]_(Unit!vars)
  <2>1. pc[r] = "idle" /\ pc'[r] \notin {"idle", "reply"} /\ pend[r] = NoWrites
    BY <1>4 DEF LoginGranted, Begin, Goto, IInv, TypeOK, WritesInOrder, InOrder
  <2>2. Others(r) /\ UNCHANGED Stored
    BY <1>4 DEF LoginGranted, Begin, Goto, Draw, Others, Stored, database,
      clients, IInv, TypeOK
  <2> QED
    BY <2>1, <2>2, OpenStep DEF IInv, Unit!Next
<1>5. ASSUME NEW r \in Requests, NEW s \in held, NEW t \in {"access",
  "refresh"} \X {s[2]}, RefreshRefused(r, s, t)
      PROVE [Unit!Next]_(Unit!vars)
  <2>1. pc[r] = "idle" /\ pc'[r] \notin {"idle", "reply"} /\ pend[r] = NoWrites
    BY <1>5 DEF RefreshRefused, Begin, Goto, IInv, TypeOK, WritesInOrder,
      InOrder
  <2>2. Others(r) /\ UNCHANGED Stored
    BY <1>5 DEF RefreshRefused, Begin, Goto, Others, Stored, database, clients,
      IInv, TypeOK
  <2> QED
    BY <2>1, <2>2, OpenStep DEF IInv, Unit!Next
<1>6. ASSUME NEW r \in Requests, NEW s \in held, NEW t \in {"access",
  "refresh"} \X {s[2]}, RefreshAdmitted(r, s, t)
      PROVE [Unit!Next]_(Unit!vars)
  <2>1. pc[r] = "idle" /\ pc'[r] \notin {"idle", "reply"} /\ pend[r] = NoWrites
    BY <1>6 DEF RefreshAdmitted, Begin, Goto, IInv, TypeOK, WritesInOrder,
      InOrder
  <2>2. Others(r) /\ UNCHANGED Stored
    BY <1>6 DEF RefreshAdmitted, Begin, Goto, Draw, Others, Stored, database,
      clients, IInv, TypeOK
  <2> QED
    BY <2>1, <2>2, OpenStep DEF IInv, Unit!Next
<1>7. ASSUME NEW r \in Requests, NEW s \in held, LogoutUnauthorized(r, s)
      PROVE [Unit!Next]_(Unit!vars)
  <2>1. pc[r] = "idle" /\ pc'[r] \notin {"idle", "reply"} /\ pend[r] = NoWrites
    BY <1>7 DEF LogoutUnauthorized, Begin, Goto, IInv, TypeOK, WritesInOrder,
      InOrder
  <2>2. Others(r) /\ UNCHANGED Stored
    BY <1>7 DEF LogoutUnauthorized, Begin, Goto, Others, Stored, database,
      clients, IInv, TypeOK
  <2> QED
    BY <2>1, <2>2, OpenStep DEF IInv, Unit!Next
<1>8. ASSUME NEW r \in Requests, NEW s \in held, NEW t \in HeldTokens \cup
  {None}, NEW all \in BOOLEAN, LogoutBegin(r, s, t, all)
      PROVE [Unit!Next]_(Unit!vars)
  <2>1. pc[r] = "idle" /\ pc'[r] \notin {"idle", "reply"} /\ pend[r] = NoWrites
    BY <1>8 DEF LogoutBegin, Begin, Goto, IInv, TypeOK, WritesInOrder, InOrder
  <2>2. Others(r) /\ UNCHANGED Stored
    BY <1>8 DEF LogoutBegin, Begin, Goto, Others, Stored, database, clients,
      IInv, TypeOK
  <2> QED
    BY <2>1, <2>2, OpenStep DEF IInv, Unit!Next
<1>9. ASSUME NEW r \in Requests, RefreshLoad(r) PROVE [Unit!Next]_(Unit!vars)
  <2>1. pc[r] \notin {"idle", "reply"} /\ pc'[r] \notin {"idle", "reply"}
    BY <1>9 DEF RefreshLoad, Continue, Goto, IInv, TypeOK
  <2>2. Others(r) /\ UNCHANGED Stored
    BY <1>9 DEF RefreshLoad, Continue, Goto, Others, Stored, database, clients,
      IInv, TypeOK
  <2>3. Grows(r)
    BY <1>9 DEF RefreshLoad, Continue, Goto, Grows, IInv, TypeOK, Writes,
      WritesInOrder, InOrder
  <2> QED
    BY <2>1, <2>2, <2>3, WorkStep DEF IInv, Unit!Next
<1>10. ASSUME NEW r \in Requests, RefreshBlacklist(r)
       PROVE [Unit!Next]_(Unit!vars)
  <2>1. pc[r] \notin {"idle", "reply"} /\ pc'[r] \notin {"idle", "reply"}
    BY <1>10 DEF RefreshBlacklist, Continue, Goto, IInv, TypeOK
  <2>2. Others(r) /\ UNCHANGED Stored
    BY <1>10 DEF RefreshBlacklist, Continue, Goto, Blacklist, LogAudit, Others,
      Stored, database, clients, IInv, TypeOK
  <2>3. Grows(r)
    BY <1>10 DEF RefreshBlacklist, Continue, Goto, Blacklist, LogAudit, Grows,
      IInv, TypeOK, Writes, WritesInOrder, InOrder
  <2> QED
    BY <2>1, <2>2, <2>3, WorkStep DEF IInv, Unit!Next
<1>11. ASSUME NEW r \in Requests, RefreshTooLate(r)
       PROVE [Unit!Next]_(Unit!vars)
  <2>1. pc[r] \notin {"idle", "reply"} /\ pc'[r] \notin {"idle", "reply"}
    BY <1>11 DEF RefreshTooLate, Continue, Goto, IInv, TypeOK
  <2>2. Others(r) /\ UNCHANGED Stored
    BY <1>11 DEF RefreshTooLate, Continue, Goto, Others, Stored, database,
      clients, IInv, TypeOK
  <2>3. Grows(r)
    BY <1>11 DEF RefreshTooLate, Continue, Goto, Grows, IInv, TypeOK, Writes,
      WritesInOrder, InOrder
  <2> QED
    BY <2>1, <2>2, <2>3, WorkStep DEF IInv, Unit!Next
<1>12. ASSUME NEW r \in Requests, CreateSessionFlush(r)
       PROVE [Unit!Next]_(Unit!vars)
  <2>1. pc[r] \notin {"idle", "reply"} /\ pc'[r] \notin {"idle", "reply"}
    BY <1>12 DEF CreateSessionFlush, Continue, Goto, IInv, TypeOK
  <2>2. Others(r) /\ UNCHANGED Stored
    BY <1>12 DEF CreateSessionFlush, Continue, Goto, Others, Stored, database,
      clients, IInv, TypeOK
  <2>3. Grows(r)
    <3>1. pend[r].rows = {}
      BY <1>12 DEF CreateSessionFlush, Continue, IInv, WritesInOrder, InOrder
    <3>2. pend'[r].inactive = pend[r].inactive
      BY <1>12 DEF CreateSessionFlush, IInv, TypeOK
    <3>3. pend'[r].audit = pend[r].audit
      BY <1>12 DEF CreateSessionFlush, IInv, TypeOK
    <3> QED
      BY <3>1, <3>2, <3>3 DEF Grows
  <2> QED
    BY <2>1, <2>2, <2>3, WorkStep DEF IInv, Unit!Next
<1>13. ASSUME NEW r \in Requests, CreateSessionRegister(r)
       PROVE [Unit!Next]_(Unit!vars)
  <2>1. pc[r] \notin {"idle", "reply"} /\ pc'[r] \notin {"idle", "reply"}
    BY <1>13 DEF CreateSessionRegister, Continue, Goto, IInv, TypeOK
  <2>2. Others(r) /\ UNCHANGED Stored
    BY <1>13 DEF CreateSessionRegister, Continue, Goto, LogAudit, Others,
      Stored, database, clients, IInv, TypeOK
  <2>3. Grows(r)
    BY <1>13 DEF CreateSessionRegister, Continue, Goto, LogAudit, Grows, IInv,
      TypeOK, Writes, WritesInOrder, InOrder
  <2> QED
    BY <2>1, <2>2, <2>3, WorkStep DEF IInv, Unit!Next
<1>14. ASSUME NEW r \in Requests, LogoutSuspended(r)
       PROVE [Unit!Next]_(Unit!vars)
  <2>1. pc[r] \notin {"idle", "reply"} /\ pc'[r] \notin {"idle", "reply"}
    BY <1>14 DEF LogoutSuspended, Continue, Goto, IInv, TypeOK
  <2>2. Others(r) /\ UNCHANGED Stored
    BY <1>14 DEF LogoutSuspended, Continue, Goto, Others, Stored, database,
      clients, IInv, TypeOK
  <2>3. Grows(r)
    BY <1>14 DEF LogoutSuspended, Continue, Goto, Grows, IInv, TypeOK, Writes,
      WritesInOrder, InOrder
  <2> QED
    BY <2>1, <2>2, <2>3, WorkStep DEF IInv, Unit!Next
<1>15. ASSUME NEW r \in Requests, LogoutUserLoaded(r)
       PROVE [Unit!Next]_(Unit!vars)
  <2>1. pc[r] \notin {"idle", "reply"} /\ pc'[r] \notin {"idle", "reply"}
    BY <1>15 DEF LogoutUserLoaded, Continue, Goto, IInv, TypeOK
  <2>2. Others(r) /\ UNCHANGED Stored
    BY <1>15 DEF LogoutUserLoaded, Continue, Goto, LogoutAudited, LogAudit,
      Others, Stored, database, clients, IInv, TypeOK
  <2>3. Grows(r)
    BY <1>15 DEF LogoutUserLoaded, Continue, Goto, LogoutAudited, LogAudit,
      Grows, IInv, TypeOK, Writes, WritesInOrder, InOrder
  <2> QED
    BY <2>1, <2>2, <2>3, WorkStep DEF IInv, Unit!Next
<1>16. ASSUME NEW r \in Requests, LogoutSweep(r) PROVE [Unit!Next]_(Unit!vars)
  <2>1. pc[r] \notin {"idle", "reply"} /\ pc'[r] \notin {"idle", "reply"}
    BY <1>16 DEF LogoutSweep, Continue, Goto, IInv, TypeOK
  <2>2. Others(r) /\ UNCHANGED Stored
    BY <1>16 DEF LogoutSweep, Continue, Goto, Others, Stored, database,
      clients, IInv, TypeOK
  <2>3. Grows(r)
    BY <1>16 DEF LogoutSweep, Continue, Goto, Grows, IInv, TypeOK, Writes,
      WritesInOrder, InOrder
  <2> QED
    BY <2>1, <2>2, <2>3, WorkStep DEF IInv, Unit!Next
<1>17. ASSUME NEW r \in Requests, LogoutForget(r) PROVE [Unit!Next]_(Unit!vars)
  <2>1. pc[r] \notin {"idle", "reply"} /\ pc'[r] \notin {"idle", "reply"}
    BY <1>17 DEF LogoutForget, Continue, Goto, IInv, TypeOK
  <2>2. Others(r) /\ UNCHANGED Stored
    BY <1>17 DEF LogoutForget, Continue, Goto, LogoutAudited, LogAudit, Others,
      Stored, database, clients, IInv, TypeOK
  <2>3. Grows(r)
    BY <1>17 DEF LogoutForget, Continue, Goto, LogoutAudited, LogAudit, Grows,
      IInv, TypeOK, Writes, WritesInOrder, InOrder
  <2> QED
    BY <2>1, <2>2, <2>3, WorkStep DEF IInv, Unit!Next
<1>18. ASSUME NEW r \in Requests, LogoutRevoke(r) PROVE [Unit!Next]_(Unit!vars)
  <2>1. pc[r] \notin {"idle", "reply"} /\ pc'[r] \notin {"idle", "reply"}
    BY <1>18 DEF LogoutRevoke, Continue, Goto, IInv, TypeOK
  <2>2. Others(r) /\ UNCHANGED Stored
    BY <1>18 DEF LogoutRevoke, Continue, Goto, Blacklist, Others, Stored,
      database, clients, IInv, TypeOK
  <2>3. Grows(r)
    BY <1>18 DEF LogoutRevoke, Continue, Goto, Blacklist, Grows, IInv, TypeOK,
      Writes, WritesInOrder, InOrder
  <2> QED
    BY <2>1, <2>2, <2>3, WorkStep DEF IInv, Unit!Next
<1>19. ASSUME NEW r \in Requests, LogoutRevokeSwallowed(r)
       PROVE [Unit!Next]_(Unit!vars)
  <2>1. pc[r] \notin {"idle", "reply"} /\ pc'[r] \notin {"idle", "reply"}
    BY <1>19 DEF LogoutRevokeSwallowed, Continue, Goto, IInv, TypeOK
  <2>2. Others(r) /\ UNCHANGED Stored
    BY <1>19 DEF LogoutRevokeSwallowed, Continue, Goto, LogoutAudited,
      LogAudit, Others, Stored, database, clients, IInv, TypeOK
  <2>3. Grows(r)
    BY <1>19 DEF LogoutRevokeSwallowed, Continue, Goto, LogoutAudited,
      LogAudit, Grows, IInv, TypeOK, Writes, WritesInOrder, InOrder
  <2> QED
    BY <2>1, <2>2, <2>3, WorkStep DEF IInv, Unit!Next
<1>20. ASSUME NEW r \in Requests, LogoutDeactivate(r)
       PROVE [Unit!Next]_(Unit!vars)
  <2>1. pc[r] \notin {"idle", "reply"} /\ pc'[r] \notin {"idle", "reply"}
    BY <1>20 DEF LogoutDeactivate, Continue, Goto, IInv, TypeOK
  <2>2. Others(r) /\ UNCHANGED Stored
    BY <1>20 DEF LogoutDeactivate, Continue, Goto, Others, Stored, database,
      clients, IInv, TypeOK
  <2>3. Grows(r)
    <3>1. pend[r].inactive = {}
      BY <1>20 DEF LogoutDeactivate, Continue, IInv, WritesInOrder, InOrder
    <3>2. pend'[r].audit = pend[r].audit \cup {<<"LOGOUT", req[r].user, None>>}
      BY <1>20 DEF LogoutDeactivate, IInv, TypeOK, Writes
    <3>3. pend'[r].rows = pend[r].rows
      BY <1>20 DEF LogoutDeactivate, IInv, TypeOK, Writes
    <3> QED
      BY <3>1, <3>2, <3>3 DEF Grows
  <2> QED
    BY <2>1, <2>2, <2>3, WorkStep DEF IInv, Unit!Next
<1>21. ASSUME NEW r \in Requests, Commit(r) PROVE [Unit!Next]_(Unit!vars)
  <2>1. pc[r] = "commit" /\ pc'[r] = "reply" /\ Others(r) /\ UNCHANGED <<pend, held>>
    BY <1>21 DEF Commit, Continue, Goto, Others, clients, IInv, TypeOK
  <2>2. storeBar' = storeBar \cup pendingBar[r]
    BY <1>21, FactsOfUnion DEF Commit, storeBar, pendingBar
  <2>3. phaseBar[r] = "open" /\ phaseBar' = [phaseBar EXCEPT ![r] = "committed"]
    BY <2>1, BarsChange DEF phaseBar, PhaseOf, IInv
  <2>4. UNCHANGED <<pendingBar, toldBar>>
    BY <2>1 DEF pendingBar, toldBar
  <2>5. Unit!Commit(r)
    BY <2>2, <2>3, <2>4 DEF Unit!Commit
  <2> QED
    BY <2>5 DEF Unit!Next
<1>22. ASSUME NEW r \in Requests, Rollback(r) PROVE [Unit!Next]_(Unit!vars)
  <2>1. Unit!Close(r)
    BY <1>22, CloseStep DEF Rollback, database, IInv
  <2>2. phaseBar[r] = "open" /\ UNCHANGED toldBar
    BY <1>22 DEF Rollback, phaseBar, PhaseOf, toldBar
  <2>3. Unit!Rollback(r)
    BY <2>1, <2>2 DEF Unit!Rollback
  <2> QED
    BY <2>3 DEF Unit!Next
<1>23. ASSUME NEW r \in Requests, Reply(r) PROVE [Unit!Next]_(Unit!vars)
  <2>1. Unit!Close(r)
    BY <1>23, CloseStep DEF Reply, database, IInv
  <2>2. phaseBar[r] = "committed"
    BY <1>23 DEF Reply, phaseBar, PhaseOf
  <2>3. toldBar \subseteq toldBar' /\ toldBar' \subseteq toldBar \cup pendingBar[r]
    BY <1>23 DEF Reply, toldBar, pendingBar, FactsOf
  <2>4. Unit!Reply(r)
    BY <2>1, <2>2, <2>3 DEF Unit!Reply
  <2> QED
    BY <2>4 DEF Unit!Next
<1>24. ASSUME NEW r \in Requests, CallFails(r) PROVE [Unit!Next]_(Unit!vars)
  <2>1. pc[r] \notin {"idle", "reply"} /\ pc'[r] \notin {"idle", "reply"}
    BY <1>24 DEF CallFails, Goto, IInv, TypeOK
  <2>2. Others(r) /\ UNCHANGED Stored
    BY <1>24 DEF CallFails, Fails, Goto, Others, Stored, database, clients,
      IInv, TypeOK
  <2>3. Grows(r)
    BY <1>24 DEF CallFails, Fails, Goto, Grows, IInv, TypeOK, Writes,
      WritesInOrder, InOrder
  <2> QED
    BY <2>1, <2>2, <2>3, WorkStep DEF IInv, Unit!Next
<1>25. ASSUME NEW r \in Requests, RevokeFails(r) PROVE [Unit!Next]_(Unit!vars)
  <2>1. pc[r] \notin {"idle", "reply"} /\ pc'[r] \notin {"idle", "reply"}
    BY <1>25 DEF RevokeFails, Continue, Goto, IInv, TypeOK
  <2>2. Others(r) /\ UNCHANGED Stored
    BY <1>25 DEF RevokeFails, Fails, Continue, Goto, LogoutAudited, LogAudit,
      Others, Stored, database, clients, IInv, TypeOK
  <2>3. Grows(r)
    BY <1>25 DEF RevokeFails, Fails, Continue, Goto, LogoutAudited, LogAudit,
      Grows, IInv, TypeOK, Writes, WritesInOrder, InOrder
  <2> QED
    BY <2>1, <2>2, <2>3, WorkStep DEF IInv, Unit!Next
<1>26. ASSUME NEW r \in Requests, AnswerLost(r) PROVE [Unit!Next]_(Unit!vars)
  <2>1. Unit!Close(r)
    BY <1>26, CloseStep DEF AnswerLost, Fails, database, IInv
  <2>2. phaseBar[r] = "committed" /\ UNCHANGED toldBar
    BY <1>26 DEF AnswerLost, Fails, phaseBar, PhaseOf, toldBar, clients
  <2>3. Unit!Reply(r)
    BY <2>1, <2>2 DEF Unit!Reply
  <2> QED
    BY <2>3 DEF Unit!Next
<1>27. ASSUME NEW t \in Token, Age(t) PROVE [Unit!Next]_(Unit!vars)
  BY <1>27, StutterStep DEF Age, database, clients
<1>28. ASSUME NEW t \in Token, BlacklistLapses(t) PROVE [Unit!Next]_(Unit!vars)
  BY <1>28, StutterStep DEF BlacklistLapses, database, clients
<1>29. ASSUME NEW u \in Users, PhoneVerified(u) PROVE [Unit!Next]_(Unit!vars)
  BY <1>29, StutterStep DEF PhoneVerified, WriteStatus, database, clients
<1>30. ASSUME NEW u \in Users, AdminSetStatus(u) PROVE [Unit!Next]_(Unit!vars)
  BY <1>30, StutterStep DEF AdminSetStatus, WriteStatus, database, clients
<1>31. CASE UNCHANGED vars
  BY <1>31, StutterStep DEF vars
<1> QED
  BY <1>1, <1>2, <1>3, <1>4, <1>5, <1>6, <1>7, <1>8, <1>9, <1>10, <1>11,
       <1>12, <1>13, <1>14, <1>15, <1>16, <1>17, <1>18, <1>19, <1>20, <1>21,
       <1>22, <1>23, <1>24, <1>25, <1>26, <1>27, <1>28, <1>29, <1>30, <1>31
       DEF Next, LoginStep, RefreshStep, LogoutStep, Handle, Environment

\* Login, refresh and logout, interleaved in any way, are transactions that
\* reach the database whole at their commit and tell clients after it.
THEOREM Implements == Spec => UnitOfWork
<1>1. Init => Unit!Init
  BY DEF Init, Unit!Init, phaseBar, pendingBar, storeBar, toldBar, PhaseOf,
    FactsOf, NoWrites
<1> QED
  BY <1>1, StepImplements, Invariance, PTL DEF Spec, UnitOfWork, Unit!Spec

-----------------------------------------------------------------------------
(* Revocation *)

\* A request that was admitted with a token has not blacklisted it yet.
AdmittedCalls == {"load", "blacklist"}

Alone(r) == \A q \in Requests \ {r} : pc'[q] = pc[q] /\ req'[q] = req[q]

Unlisted == UNCHANGED <<life, blacklist, spent>>

LEMMA BeginAlone ==
  ASSUME TypeOK, NEW r \in Requests, NEW locals, NEW call, Begin(r, locals, call)
  PROVE  Alone(r) /\ pc[r] = "idle" /\ pc'[r] = call /\ req'[r] = locals
BY DEF Begin, Goto, Alone, TypeOK

LEMMA ContinueAlone ==
  ASSUME TypeOK, NEW r \in Requests, NEW at, NEW call, Continue(r, at, call)
  PROVE  Alone(r) /\ pc[r] = at /\ pc'[r] = call /\ req' = req
BY DEF Continue, Goto, Alone, TypeOK

LEMMA EndAlone ==
  ASSUME TypeOK, NEW r \in Requests, End(r)
  PROVE  Alone(r) /\ pc'[r] = "idle"
BY DEF End, Goto, Alone, TypeOK

\* How the admissions change when only request r moves.
LEMMA AdmittedChange ==
  ASSUME NEW r \in Requests, Alone(r)
  PROVE  /\ admittedBar' = [admittedBar EXCEPT ![r] = admittedBar'[r]]
         /\ admittedBar[r] = IF pc[r] \in AdmittedCalls THEN req[r].token ELSE None
         /\ admittedBar'[r] = IF pc'[r] \in AdmittedCalls THEN req'[r].token ELSE None
BY DEF admittedBar, Alone, AdmittedCalls

\* A step that neither admits a request nor ends an admission.
LEMMA Unseen ==
  ASSUME NEW r \in Requests, Alone(r), Unlisted,
         pc[r] \notin AdmittedCalls, pc'[r] \notin AdmittedCalls
  PROVE  UNCHANGED Contract!vars
<1>1. admittedBar' = admittedBar
  BY AdmittedChange DEF admittedBar
<1> QED
  BY <1>1 DEF Contract!vars, Unlisted

\* Every step is a step of Revocation or invisible to it.
LEMMA StepKeepsContract == IInv /\ IInv' /\ [Next]_vars => [Contract!Next]_(Contract!vars)
<1> SUFFICES ASSUME IInv, IInv', [Next]_vars
             PROVE  [Contract!Next]_(Contract!vars)
  OBVIOUS
<1>0. TypeOK
  BY DEF IInv
<1>1. ASSUME NEW r \in Requests, LoginStep(r)
      PROVE  UNCHANGED Contract!vars
  <2>1. Alone(r) /\ pc[r] = "idle" /\ pc'[r] \in {"raise", "flush"}
    BY <1>0, <1>1, BeginAlone
       DEF LoginStep, LoginUnknownPhone, LoginRefused, LoginWrongPassword, LoginGranted
  <2>2. Unlisted
    BY <1>1 DEF LoginStep, LoginUnknownPhone, LoginRefused, LoginWrongPassword, LoginGranted,
                redis, Unlisted
  <2> QED
    BY <2>1, <2>2, Unseen DEF AdmittedCalls
<1>2. ASSUME NEW r \in Requests, LogoutStep(r)
      PROVE  UNCHANGED Contract!vars
  <2>1. Alone(r) /\ pc[r] = "idle" /\ pc'[r] \in {"raise", "user"}
    BY <1>0, <1>2, BeginAlone DEF LogoutStep, LogoutUnauthorized, LogoutBegin
  <2>2. Unlisted
    BY <1>2 DEF LogoutStep, LogoutUnauthorized, LogoutBegin, redis, Unlisted
  <2> QED
    BY <2>1, <2>2, Unseen DEF AdmittedCalls
<1>3. ASSUME NEW r \in Requests, NEW s \in held, NEW t \in {"access", "refresh"} \X {s[2]},
             RefreshRefused(r, s, t)
      PROVE  UNCHANGED Contract!vars
  <2>1. Alone(r) /\ pc[r] = "idle" /\ pc'[r] = "raise"
    BY <1>0, <1>3, BeginAlone DEF RefreshRefused
  <2>2. Unlisted
    BY <1>3 DEF RefreshRefused, redis, Unlisted
  <2> QED
    BY <2>1, <2>2, Unseen DEF AdmittedCalls
<1>4. ASSUME NEW r \in Requests, NEW s \in held, NEW t \in {"access", "refresh"} \X {s[2]},
             RefreshAdmitted(r, s, t)
      PROVE  Contract!Next
  <2>1. t \in Token
    BY <1>0 DEF TypeOK, Session, Token
  <2>2. PICK i \in Ids : Begin(r, [Refresh(s, t) EXCEPT !.id = i], "load")
    BY <1>4 DEF RefreshAdmitted
  <2>3. /\ Alone(r) /\ pc[r] = "idle" /\ pc'[r] = "load"
        /\ req'[r] = [Refresh(s, t) EXCEPT !.id = i]
    BY <1>0, <2>2, BeginAlone
  <2>4. req'[r].token = t
    BY <2>3 DEF Refresh, Idle
  <2>5. Contract!Admit(r, t)
    BY <1>4, <2>3, <2>4, AdmittedChange
       DEF AdmittedCalls, RefreshAdmitted, redis, Contract!Admit
  <2> QED
    BY <2>1, <2>5 DEF Contract!Next
<1>5. ASSUME NEW r \in Requests, RefreshLoad(r)
      PROVE  UNCHANGED Contract!vars
  <2>1. Alone(r) /\ pc[r] = "load" /\ pc'[r] = "blacklist" /\ req' = req
    BY <1>0, <1>5, ContinueAlone DEF RefreshLoad
  <2>2. admittedBar' = admittedBar
    BY <2>1, AdmittedChange DEF admittedBar, AdmittedCalls
  <2> QED
    BY <1>5, <2>2 DEF RefreshLoad, redis, Contract!vars
<1>6. ASSUME NEW r \in Requests, RefreshBlacklist(r)
      PROVE  Contract!Next
  <2>1. Alone(r) /\ pc[r] = "blacklist" /\ pc'[r] = "flush"
    BY <1>0, <1>6, ContinueAlone DEF RefreshBlacklist
  <2>2. req[r].token \in Token
    BY <2>1 DEF IInv, Admitted
  <2>3. Contract!Revoke(r, req[r].token)
    BY <1>6, <2>1, AdmittedChange DEF AdmittedCalls, RefreshBlacklist, Blacklist, Contract!Revoke
  <2> QED
    BY <2>2, <2>3 DEF Contract!Next
<1>7. ASSUME NEW r \in Requests, RefreshTooLate(r) \/ CallFails(r)
      PROVE  Contract!Next
  <2>1. Alone(r) /\ pc'[r] = "raise"
    BY <1>0, <1>7, ContinueAlone DEF RefreshTooLate, CallFails, Goto, Alone, TypeOK
  <2>2. UNCHANGED <<life, blacklist, spent>>
    BY <1>7 DEF RefreshTooLate, CallFails, Fails, redis
  <2>3. Contract!Leave({r})
    BY <2>1, <2>2, AdmittedChange DEF admittedBar, AdmittedCalls, Contract!Leave
  <2> QED
    BY <2>3 DEF Contract!Next
\* The revocation of a logout, acknowledged or not.
<1>8. ASSUME NEW r \in Requests, LogoutRevoke(r) \/ RevokeFails(r)
      PROVE  [Contract!Next]_(Contract!vars)
  <2>1. Alone(r) /\ pc[r] = "revoke" /\ pc'[r] \in {"deactivate", "commit"}
    BY <1>0, <1>8, ContinueAlone DEF LogoutRevoke, RevokeFails
  <2>2. req[r].token \in Token
    BY <2>1 DEF IInv, Admitted
  <2>3. admittedBar' = [admittedBar EXCEPT ![r] = None] /\ admittedBar' = admittedBar
    BY <2>1, AdmittedChange DEF admittedBar, AdmittedCalls
  <2>4. /\ life' = life
        /\ \/ blacklist' = blacklist /\ spent' = spent
           \/ /\ blacklist' = blacklist \cup {req[r].token}
              /\ spent' \in {spent, spent \cup {req[r].token}}
    BY <1>8 DEF LogoutRevoke, RevokeFails, Fails, Blacklist
  <2>5. Contract!Revoke(r, req[r].token) \/ UNCHANGED Contract!vars
    BY <2>3, <2>4 DEF Contract!Revoke, Contract!vars
  <2> QED
    BY <2>2, <2>5 DEF Contract!Next
\* The other calls of a request.
<1>9. ASSUME NEW r \in Requests,
             \/ CreateSessionFlush(r) \/ CreateSessionRegister(r)
             \/ LogoutSuspended(r) \/ LogoutUserLoaded(r) \/ LogoutSweep(r) \/ LogoutForget(r)
             \/ LogoutRevokeSwallowed(r) \/ LogoutDeactivate(r) \/ Commit(r)
      PROVE  UNCHANGED Contract!vars
  <2>1. PICK at \in Calls \ AdmittedCalls, call \in Calls \ AdmittedCalls : Continue(r, at, call)
    BY <1>9 DEF CreateSessionFlush, CreateSessionRegister, LogoutSuspended, LogoutUserLoaded,
                LogoutSweep, LogoutForget, LogoutRevokeSwallowed, LogoutDeactivate, Commit,
                Calls, AdmittedCalls
  <2>2. Alone(r) /\ pc[r] \notin AdmittedCalls /\ pc'[r] \notin AdmittedCalls
    BY <1>0, <2>1, ContinueAlone
  <2>3. Unlisted
    BY <1>9 DEF CreateSessionFlush, CreateSessionRegister, LogoutSuspended, LogoutUserLoaded,
                LogoutSweep, LogoutForget, LogoutRevokeSwallowed, LogoutDeactivate, Commit,
                redis, Unlisted
  <2> QED
    BY <2>2, <2>3, Unseen
<1>10. ASSUME NEW r \in Requests, Rollback(r) \/ Reply(r) \/ AnswerLost(r)
       PROVE  UNCHANGED Contract!vars
  <2>1. Alone(r) /\ pc[r] \in {"raise", "reply"} /\ pc'[r] = "idle"
    BY <1>0, <1>10, EndAlone DEF Rollback, Reply, AnswerLost
  <2>2. Unlisted
    BY <1>10 DEF Rollback, Reply, AnswerLost, Fails, redis, Unlisted
  <2> QED
    BY <2>1, <2>2, Unseen DEF AdmittedCalls
<1>11. ASSUME NEW t \in Token, Age(t) \/ BlacklistLapses(t)
       PROVE  Contract!Next
  <2>1. UNCHANGED <<pc, req, spent>>
    BY <1>11 DEF Age, BlacklistLapses
  <2>2. life' \in [Token -> Contract!Stages] /\ blacklist' \subseteq blacklist
    BY <1>11 DEF IInv, TypeOK, Age, BlacklistLapses, redis, Contract!Stages
  <2>3. \A u \in Token : life[u] \in {"valid", life'[u]} \/ life'[u] = "expired"
    BY <1>0, <1>11 DEF TypeOK, Age, BlacklistLapses
  <2>4. \A u \in blacklist \ blacklist' : life'[u] # "valid"
    BY <1>11 DEF Age, BlacklistLapses, redis
  <2>5. Contract!Pass
    BY <2>1, <2>2, <2>3, <2>4 DEF Contract!Pass, admittedBar
  <2> QED
    BY <2>5 DEF Contract!Next
<1>12. ASSUME NEW u \in Users, PhoneVerified(u) \/ AdminSetStatus(u)
       PROVE  UNCHANGED Contract!vars
  BY <1>12 DEF PhoneVerified, AdminSetStatus, WriteStatus, redis, admittedBar, Contract!vars
<1>13. CASE UNCHANGED vars
  BY <1>13 DEF vars, admittedBar, Contract!vars
<1> QED
  BY <1>1, <1>2, <1>3, <1>4, <1>5, <1>6, <1>7, <1>8, <1>9, <1>10, <1>11, <1>12, <1>13
     DEF Next, RefreshStep, Handle, Environment

\* A refresh token that was spent by a refresh or a logout stays refused while it
\* is valid, through rollbacks, failed calls and lost answers.
THEOREM KeepsRevocation == Spec => RevocationKept
<1>1. Init => Contract!Init
  BY DEF Init, Contract!Init, admittedBar
<1> QED
  BY <1>1, StepKeepsContract, Invariance, PTL DEF Spec, RevocationKept, Contract!Spec
=============================================================================
