------------------------- MODULE BalanceApi_proofs -------------------------
(***************************************************************************)
(* Theorems about BalanceApi, for any set of concurrent requests.          *)
(***************************************************************************)
EXTENDS BalanceApi, TLAPS

Active == {"render", "test", "replace", "reload", "note", "write"}

\* A request at work has a mode, and none is answered "applied" before its end.
Underway ==
  \A r \in Requests :
    /\ pc[r] \in Active => wants[r] \in Modes
    /\ answer[r] = "applied" => pc[r] = "done"

\* What haproxy runs is behind the file only while somebody is about to reload.
BehindOnlyBriefly ==
  loaded # config /\ ~failed => \E r \in Requests : pc[r] = "reload"

\* A request that has met no other is the only one at work, and what it has
\* done so far stands.
AloneStands ==
  \A r \in Requests :
    alone[r] /\ pc[r] \in Active =>
      /\ \A s \in Requests \ {r} : pc[s] \notin Active
      /\ pc[r] \in {"reload", "note", "write"} => config = wants[r]
      /\ pc[r] \in {"note", "write"} => loaded = wants[r]

IndInv == TypeOK /\ Underway /\ BehindOnlyBriefly /\ AloneStands

----------------------------------------------------------------------------
\* Nobody is at work at first.
LEMMA InitInv == Init => IndInv
  BY DEF Init, IndInv, TypeOK, Underway, BehindOnlyBriefly, AloneStands, Active, Modes

\* The modes that reach the file are those asked for.
LEMMA StepTypeOK == TypeOK /\ Underway /\ [Next]_vars => TypeOK'
<1> SUFFICES ASSUME TypeOK, Underway, [Next]_vars PROVE TypeOK'
  OBVIOUS
<1> USE DEF TypeOK
<1>1. CASE UNCHANGED vars
  BY <1>1 DEF vars
<1>2. CASE Next
  <2>1. PICK r \in Requests : Request(r)
    BY <1>2 DEF Next
  <2>2. CASE Refuse(r)
    BY <2>2 DEF Refuse, Ends
  <2>3. CASE Post(r)
    BY <2>3 DEF Post, MovesTo, Working
  <2>4. CASE Render(r)
    BY <2>4 DEF Render, MovesTo, Kept
  <2>5. CASE Test(r)
    BY <2>5 DEF Test, MovesTo, Kept
  <2>6. CASE Replace(r)
    BY <2>6 DEF Replace, MovesTo, Kept, Underway, Active
  <2>7. CASE Reload(r)
    BY <2>7 DEF Reload, MovesTo, Kept
  <2>8. CASE Truncate(r)
    BY <2>8 DEF Truncate, MovesTo, Kept
  <2>9. CASE Apply(r)
    BY <2>9 DEF Apply, Ends, Underway, Active
  <2>10. CASE Fail(r)
    BY <2>10 DEF Fail, Clean, Ends
  <2> QED
    BY <2>1, <2>2, <2>3, <2>4, <2>5, <2>6, <2>7, <2>8, <2>9, <2>10 DEF Request
<1> QED
  BY <1>1, <1>2

\* A mode is chosen before the work begins, and the answer is its end.
LEMMA StepUnderway == TypeOK /\ Underway /\ [Next]_vars => Underway'
<1> SUFFICES ASSUME TypeOK, Underway, [Next]_vars PROVE Underway'
  OBVIOUS
<1> USE DEF TypeOK, Underway, Active, Modes
<1>1. CASE UNCHANGED vars
  BY <1>1 DEF vars
<1>2. CASE Next
  <2>1. PICK r \in Requests : Request(r)
    BY <1>2 DEF Next
  <2>2. CASE Refuse(r)
    BY <2>2 DEF Refuse, Ends
  <2>3. CASE Post(r)
    BY <2>3 DEF Post, MovesTo, Working
  <2>4. CASE Render(r)
    BY <2>4 DEF Render, MovesTo, Kept
  <2>5. CASE Test(r)
    BY <2>5 DEF Test, MovesTo, Kept
  <2>6. CASE Replace(r)
    BY <2>6 DEF Replace, MovesTo, Kept
  <2>7. CASE Reload(r)
    BY <2>7 DEF Reload, MovesTo, Kept
  <2>8. CASE Truncate(r)
    BY <2>8 DEF Truncate, MovesTo, Kept
  <2>9. CASE Apply(r)
    BY <2>9 DEF Apply, Ends
  <2>10. CASE Fail(r)
    BY <2>10 DEF Fail, Clean, Ends
  <2> QED
    BY <2>1, <2>2, <2>3, <2>4, <2>5, <2>6, <2>7, <2>8, <2>9, <2>10 DEF Request
<1> QED
  BY <1>1, <1>2

\* A request that replaces the file goes on to reload it, or notes that it failed.
LEMMA StepBehindOnlyBriefly == TypeOK /\ BehindOnlyBriefly /\ [Next]_vars => BehindOnlyBriefly'
<1> SUFFICES ASSUME TypeOK, BehindOnlyBriefly, [Next]_vars PROVE BehindOnlyBriefly'
  OBVIOUS
<1> USE DEF TypeOK, BehindOnlyBriefly
<1>1. CASE UNCHANGED vars
  BY <1>1 DEF vars
<1>2. CASE Next
  <2>1. PICK r \in Requests : Request(r)
    BY <1>2 DEF Next
  <2>2. CASE Refuse(r)
    BY <2>2 DEF Refuse, Ends
  <2>3. CASE Post(r)
    BY <2>3 DEF Post, MovesTo, Working
  <2>4. CASE Render(r)
    BY <2>4 DEF Render, MovesTo, Kept
  <2>5. CASE Test(r)
    BY <2>5 DEF Test, MovesTo, Kept
  <2>6. CASE Replace(r)
    BY <2>6 DEF Replace, MovesTo, Kept
  <2>7. CASE Reload(r)
    BY <2>7 DEF Reload, MovesTo, Kept
  <2>8. CASE Truncate(r)
    BY <2>8 DEF Truncate, MovesTo, Kept
  <2>9. CASE Apply(r)
    BY <2>9 DEF Apply, Ends
  <2>10. CASE Fail(r)
    BY <2>10 DEF Fail, Clean, Ends
  <2> QED
    BY <2>1, <2>2, <2>3, <2>4, <2>5, <2>6, <2>7, <2>8, <2>9, <2>10 DEF Request
<1> QED
  BY <1>1, <1>2

\* Whoever begins while another is at work is not alone, nor is the other.
LEMMA StepAloneStands == TypeOK /\ AloneStands /\ [Next]_vars => AloneStands'
<1> SUFFICES ASSUME TypeOK, AloneStands, [Next]_vars PROVE AloneStands'
  OBVIOUS
<1> USE DEF TypeOK, AloneStands, Active
<1>1. CASE UNCHANGED vars
  BY <1>1 DEF vars
<1>2. CASE Next
  <2>1. PICK r \in Requests : Request(r)
    BY <1>2 DEF Next
  <2>2. CASE Refuse(r)
    BY <2>2 DEF Refuse, Ends
  <2>3. CASE Post(r)
    BY <2>3 DEF Post, MovesTo, Working
  <2>4. CASE Render(r)
    BY <2>4 DEF Render, MovesTo, Kept
  <2>5. CASE Test(r)
    BY <2>5 DEF Test, MovesTo, Kept
  <2>6. CASE Replace(r)
    BY <2>6 DEF Replace, MovesTo, Kept
  <2>7. CASE Reload(r)
    BY <2>7 DEF Reload, MovesTo, Kept
  <2>8. CASE Truncate(r)
    BY <2>8 DEF Truncate, MovesTo, Kept
  <2>9. CASE Apply(r)
    BY <2>9 DEF Apply, Ends
  <2>10. CASE Fail(r)
    BY <2>10 DEF Fail, Clean, Ends
  <2> QED
    BY <2>1, <2>2, <2>3, <2>4, <2>5, <2>6, <2>7, <2>8, <2>9, <2>10 DEF Request
<1> QED
  BY <1>1, <1>2

\* The conjuncts hold together in every reachable state.
LEMMA Invariance == Spec => []IndInv
<1>1. IndInv /\ [Next]_vars => IndInv'
  BY StepTypeOK, StepUnderway, StepBehindOnlyBriefly, StepAloneStands DEF IndInv
<1> QED
  BY InitInv, <1>1, PTL DEF Spec

----------------------------------------------------------------------------
\* Type correctness for any number of requests, and no private file outlives the
\* request that made it.
THEOREM BalanceTypeOK == Spec => []TypeOK
<1>1. IndInv => TypeOK
  BY DEF IndInv
<1> QED
  BY Invariance, <1>1, PTL

\* Whatever the order in which any number of requests replace and reload the
\* configuration, haproxy runs the file at rest, unless a reload has failed.
THEOREM BalanceLoaded == Spec => []LoadedCatchesUp
<1>1. IndInv => LoadedCatchesUp
  BY DEF IndInv, TypeOK, BehindOnlyBriefly, LoadedCatchesUp, Working
<1> QED
  BY Invariance, <1>1, PTL

\* A request that met no other and was told "applied" is, after any history.
THEOREM BalanceApplied == Spec => AppliedAloneIsTrue
<1> DEFINE Applied ==
      \A r \in Requests :
        pc[r] # "done" /\ answer'[r] = "applied" /\ alone[r] =>
          /\ config' = wants[r] /\ loaded' = wants[r]
          /\ CurrentMode' = wants[r]
<1>1. IndInv /\ [Next]_vars => [Applied]_vars
  <2> SUFFICES ASSUME IndInv, Next, NEW r \in Requests,
                      pc[r] # "done", answer'[r] = "applied", alone[r]
               PROVE  /\ config' = wants[r] /\ loaded' = wants[r]
                      /\ CurrentMode' = wants[r]
    OBVIOUS
  <2>1. PICK s \in Requests : Request(s)
    BY DEF Next
  <2>2. answer[r] # "applied"
    BY DEF IndInv, Underway
  <2>3. Apply(s) /\ s = r
    BY <2>1, <2>2 DEF Request, Refuse, Post, Render, Test, Replace, Reload, Truncate, Apply,
                      Fail, Ends, MovesTo, Kept, IndInv, TypeOK
  <2>4. pc[r] = "write" /\ pc[r] \in Active
    BY <2>3 DEF Apply, Active
  <2>5. wants[r] \in Modes
    BY <2>4 DEF IndInv, Underway
  <2>6. config = wants[r] /\ loaded = wants[r]
    BY <2>4 DEF IndInv, AloneStands
  <2>7. config' = config /\ loaded' = loaded /\ modeFile' = wants[r] /\ wants' = wants
    BY <2>3 DEF Apply
  <2> QED
    BY <2>5, <2>6, <2>7 DEF CurrentMode
<1> QED
  BY Invariance, <1>1, PTL DEF Spec, AppliedAloneIsTrue

=============================================================================
