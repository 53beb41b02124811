----------------------------- MODULE BalanceApi -----------------------------
(***************************************************************************)
(* tg-balance-api.py: the HTTP service that switches the balancing mode of *)
(* haproxy.  ThreadingHTTPServer runs every request in a thread of its own *)
(* and nothing orders them: each renders a private file, has haproxy test  *)
(* it, renames it over haproxy.cfg, has systemd reload haproxy, and writes *)
(* the mode file that GET answers from.                                    *)
(*                                                                         *)
(* A configuration is the mode it was rendered for.  haproxy and systemd   *)
(* are external; the calls to them have no timeout.                        *)
(***************************************************************************)
EXTENDS Naturals, FiniteSets

CONSTANTS
  Requests,                 \* POST requests, each made once
  RoundRobin, StickTable,   \* VALID_MODES
  NoMode                    \* no mode asked for, or no mode file

Modes == {RoundRobin, StickTable}
Empty == "empty"            \* a mode file opened for writing and not written

VARIABLES
  config,    \* mode rendered in haproxy.cfg
  loaded,    \* mode haproxy runs with
  modeFile,  \* tg-balance-mode
  temps,     \* requests whose private file exists
  pc, wants, \* where each request stands, and the mode of its path
  answer,    \* what its caller was told
  alone,     \* history: no other request has been in set_mode meanwhile
  failed     \* history: a reload has failed since haproxy.cfg was last replaced

vars == <<config, loaded, modeFile, temps, pc, wants, answer, alone, failed>>

Working == {r \in Requests : pc[r] \notin {"new", "done"}}

Init ==
  /\ config \in Modes /\ loaded = config
  /\ modeFile \in Modes \cup {NoMode}
  /\ temps = {}
  /\ pc = [r \in Requests |-> "new"]
  /\ wants = [r \in Requests |-> NoMode]
  /\ answer = [r \in Requests |-> "none"]
  /\ alone = [r \in Requests |-> FALSE]
  /\ failed = FALSE

\* current_mode, which GET reports.  Without a mode file it raises, and the
\* connection is closed with no answer.
CurrentMode == IF modeFile \in Modes \cup {NoMode} THEN modeFile ELSE RoundRobin

----------------------------------------------------------------------------
MovesTo(r, from, to) == pc[r] = from /\ pc' = [pc EXCEPT ![r] = to]
Kept(r) == UNCHANGED <<wants, answer, alone>>
Ends(r, told) ==
  /\ pc' = [pc EXCEPT ![r] = "done"]
  /\ answer' = [answer EXCEPT ![r] = told]

\* Another path is answered 404, a missing or wrong token 401.
Refuse(r) ==
  /\ pc[r] = "new"
  /\ Ends(r, "refused")
  /\ UNCHANGED <<config, loaded, modeFile, temps, wants, alone, failed>>

Post(r) ==
  /\ MovesTo(r, "new", "render")
  /\ \E mode \in Modes : wants' = [wants EXCEPT ![r] = mode]
  /\ alone' = [s \in Requests |->
                 IF s = r THEN Working = {} ELSE alone[s] /\ s \notin Working]
  /\ UNCHANGED <<config, loaded, modeFile, temps, answer, failed>>

Render(r) ==
  /\ MovesTo(r, "render", "test")
  /\ temps' = temps \cup {r}
  /\ Kept(r) /\ UNCHANGED <<config, loaded, modeFile, failed>>

\* haproxy -c -f accepts it.
Test(r) ==
  /\ MovesTo(r, "test", "replace")
  /\ Kept(r) /\ UNCHANGED <<config, loaded, modeFile, temps, failed>>

\* Mutant: a configuration that says this mode already is not loaded again.
ReplaceOther(r) ==
  /\ MovesTo(r, "replace", IF config = wants[r] THEN "note" ELSE "reload")
  /\ config' = wants[r] /\ temps' = temps \ {r}
  /\ failed' = (failed /\ config = wants[r])
  /\ Kept(r) /\ UNCHANGED <<loaded, modeFile>>

Replace(r) ==
  /\ MovesTo(r, "replace", "reload")
  /\ config' = wants[r] /\ temps' = temps \ {r}
  /\ failed' = FALSE
  /\ Kept(r) /\ UNCHANGED <<loaded, modeFile>>

\* Mutant: without check=True a reload that failed is not noticed.
ReloadUnchecked(r) ==
  /\ MovesTo(r, "reload", "note")
  /\ loaded' \in {loaded, config}
  /\ Kept(r) /\ UNCHANGED <<config, modeFile, temps, failed>>

\* haproxy reads haproxy.cfg as it is then, whoever put it there.
Reload(r) ==
  /\ MovesTo(r, "reload", "note")
  /\ loaded' = config
  /\ Kept(r) /\ UNCHANGED <<config, modeFile, temps, failed>>

\* write_text empties the mode file and then writes it.
Truncate(r) ==
  /\ MovesTo(r, "note", "write")
  /\ modeFile' = Empty
  /\ Kept(r) /\ UNCHANGED <<config, loaded, temps, failed>>

\* Both modes have the same length, so of two writers the last one wins.
Apply(r) ==
  /\ pc[r] = "write"
  /\ modeFile' = wants[r]
  /\ Ends(r, "applied")
  /\ UNCHANGED <<config, loaded, temps, wants, alone, failed>>

\* Mutant: the private file is removed only after a successful test.
KeepTemp(r) == UNCHANGED temps

\* finally: what was not renamed is removed.
Clean(r) == temps' = temps \ {r}

\* haproxy rejects the file, systemctl fails, or a file cannot be written: the
\* caller is told 500, and what was done stays done.
Fail(r) ==
  /\ pc[r] \in {"render", "test", "replace", "reload", "note", "write"}
  /\ Clean(r)
  /\ failed' = (failed \/ pc[r] = "reload")
  /\ Ends(r, "failed")
  /\ UNCHANGED <<config, loaded, modeFile, wants, alone>>

Request(r) ==
  \/ Refuse(r) \/ Post(r) \/ Render(r) \/ Test(r) \/ Replace(r) \/ Reload(r)
  \/ Truncate(r) \/ Apply(r) \/ Fail(r)

Next == \E r \in Requests : Request(r)

Spec == Init /\ [][Next]_vars

----------------------------------------------------------------------------
\* Types; a private file is there only for a request that has not renamed it.
TypeOK ==
  /\ config \in Modes /\ loaded \in Modes
  /\ modeFile \in Modes \cup {NoMode, Empty}
  /\ pc \in [Requests -> {"new", "render", "test", "replace", "reload", "note", "write", "done"}]
  /\ wants \in [Requests -> Modes \cup {NoMode}]
  /\ answer \in [Requests -> {"none", "refused", "applied", "failed"}]
  /\ alone \in [Requests -> BOOLEAN] /\ failed \in BOOLEAN
  /\ temps = {r \in Requests : pc[r] \in {"test", "replace"}}

\* When no request runs, haproxy runs what haproxy.cfg says, in whatever order
\* the requests replaced and reloaded it (tg-balance-api.py:61), unless a reload
\* has failed since.
LoadedCatchesUp == Working = {} /\ ~failed => loaded = config

\* A request that met no other in set_mode and was answered "applied" is: the
\* file, haproxy and what GET reports agree on its mode, whatever earlier
\* requests that overlapped or failed halfway left behind (tg-balance-api.py:60).
AppliedAloneIsTrue ==
  [][\A r \in Requests :
       pc[r] # "done" /\ answer'[r] = "applied" /\ alone[r] =>
         /\ config' = wants[r] /\ loaded' = wants[r]
         /\ CurrentMode' = wants[r]]_vars

=============================================================================
