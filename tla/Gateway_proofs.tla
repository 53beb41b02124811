--------------------------- MODULE Gateway_proofs ---------------------------
(***************************************************************************)
(* Theorems about Gateway: for any queries and any limit, and with starts, *)
(* stops, kills and reboots at any command of the script.                  *)
(***************************************************************************)
EXTENDS Gateway, SequenceTheorems, FiniteSetTheorems, TLAPS

\* A chain is never anything but the beginning of what a first start makes.
Ordered ==
  /\ chain["tcp"] \in {<<>>, <<"any">>}
  /\ chain["doh"] \in {<<>>, <<"local">>, <<"local", "default">>}
  /\ chain["tproxy"] \in {<<>>, <<"local">>, <<"local", "default">>,
                          <<"local", "default", "any">>}

\* Only the setup and the cleanup are in the middle of something.
AtTheStart == stage \in {"off", "serving", "ending"} => at = 1

\* The guard is there once the first command has run.
GuardStands ==
  stage \in {"serving", "cleanup", "ending"} \/ at > 1 => "guard" \in hooks

\* What the commands so far have put in place is there, and no chain holds more.
SetupHooks ==
  stage = "setup" =>
    \A i \in 1 .. at - 1 : Setup[i].do \in {"hook", "add"} => Setup[i].what \in hooks

SetupChains ==
  stage = "setup" =>
    /\ at > 2 => chain["tcp"] = IF at > 6 THEN <<"any">> ELSE <<>>
    /\ at > 3 => chain["doh"] = IF at > 11 THEN <<"local", "default">>
                                ELSE IF at > 9 THEN <<"local">> ELSE <<>>
    /\ at > 4 => chain["tproxy"] = IF at > 13 THEN <<"local", "default", "any">>
                                   ELSE IF at > 12 THEN <<"local", "default">>
                                   ELSE IF at > 10 THEN <<"local">> ELSE <<>>

\* The cleanup is at one of its commands, and what those before it have removed is gone.
CleanupFits == stage = "cleanup" => at \in 1 .. 9

CleanupGone ==
  stage = "cleanup" =>
    \A i \in 1 .. at - 1 :
      /\ Cleanup[i].do = "unhook" => Cleanup[i].what \notin hooks
      /\ Cleanup[i].do = "flush" => chain[Cleanup[i].what] = <<>>

RuleInv ==
  /\ TypeOK /\ Ordered /\ AtTheStart /\ GuardStands
  /\ SetupHooks /\ SetupChains /\ CleanupFits /\ CleanupGone
  /\ ServingIsFresh /\ StoppedIsClean

USE GatewayAssumption
    DEF ruleVars, scriptVars, queryVars, Kinds, Chains, Daemons, Hooks, Pending, Empty,
        Hook, Add, Flush, Entry, Unhook
----------------------------------------------------------------------------
(* The script. *)

\* The sixteen commands of the setup, the nine of the cleanup.
LEMMA SetupCommands ==
  /\ Len(Setup) = 16
  /\ Setup[1] = Hook("guard") /\ Setup[2] = Flush("tcp") /\ Setup[3] = Flush("doh")
  /\ Setup[4] = Flush("tproxy") /\ Setup[5] = Hook("tcp") /\ Setup[6] = Entry("tcp", "any")
  /\ Setup[7] = Hook("doh") /\ Setup[8] = Hook("tproxy")
  /\ Setup[9] = Entry("doh", "local") /\ Setup[10] = Entry("tproxy", "local")
  /\ Setup[11] = Entry("doh", "default") /\ Setup[12] = Entry("tproxy", "default")
  /\ Setup[13] = Entry("tproxy", "any")
  /\ Setup[14] = Hook("mark") /\ Setup[15] = Add("policy") /\ Setup[16] = Hook("route")
  BY DEF Setup

\* The commands of the cleanup, by number.
LEMMA CleanupCommands ==
  /\ Len(Cleanup) = 9
  /\ Cleanup[1] = Unhook("tcp") /\ Cleanup[2] = Unhook("doh") /\ Cleanup[3] = Unhook("mark")
  /\ Cleanup[4] = Unhook("tproxy") /\ Cleanup[5] = Flush("tcp") /\ Cleanup[6] = Flush("doh")
  /\ Cleanup[7] = Flush("tproxy") /\ Cleanup[8] = Unhook("policy")
  /\ Cleanup[9] = Unhook("route")
  BY DEF Cleanup

\* What the setup may do to the rules: it removes none.
LEMMA SetupKinds ==
  ASSUME NEW i \in 1 .. 16
  PROVE  \/ Setup[i].do \in {"hook", "add"} /\ Setup[i].what \in Hooks
         \/ Setup[i].do = "flush" /\ Setup[i].what \in Chains
         \/ /\ Setup[i].do = "append" /\ Setup[i].what \in Chains
            /\ Setup[i].match \in Kinds \cup {"any"}
  BY SetupCommands

\* What the cleanup may do: it adds nothing and leaves the guard.
LEMMA CleanupKinds ==
  ASSUME NEW i \in 1 .. 9
  PROVE  \/ Cleanup[i].do = "unhook" /\ Cleanup[i].what \in Hooks \ {"guard"}
         \/ Cleanup[i].do = "flush" /\ Cleanup[i].what \in Chains
  BY CleanupCommands

----------------------------------------------------------------------------
(* The rules. *)

\* A command of the setup or the cleanup, written out.
LEMMA Executed ==
  ASSUME TypeOK, NEW command, Execute(command)
  PROVE  /\ hooks' = IF command.do \in {"hook", "add"} THEN hooks \cup {command.what}
                     ELSE IF command.do = "unhook" THEN hooks \ {command.what} ELSE hooks
         /\ command.do \in {"hook", "add", "unhook"} => chain' = chain
         /\ command.do = "flush" => chain' = [chain EXCEPT ![command.what] = <<>>]
         /\ command.do = "append" =>
              chain' = [chain EXCEPT ![command.what] = Append(@, command.match)]
  BY DEF Execute

\* A rule is appended to a chain of one, or of two.
LEMMA AppendTwo ==
  ASSUME NEW a, NEW b
  PROVE  Append(<<a>>, b) = <<a, b>>
<1> DEFINE S == {a, b}
           s == Append(<<a>>, b)
           t == <<a, b>>
<1>1. s \in Seq(S) /\ t \in Seq(S)
  OBVIOUS
<1>2. Len(s) = 2 /\ Len(t) = 2 /\ s[1] = t[1] /\ s[2] = t[2]
  OBVIOUS
<1> HIDE DEF s, t, S
<1>3. \A i \in 1 .. Len(s) : s[i] = t[i]
  BY <1>2
<1>4. s = t
  BY <1>1, <1>2, <1>3, SeqEqual
<1> QED
  BY <1>4 DEF s, t

\* And for three.
LEMMA AppendThree ==
  ASSUME NEW a, NEW b, NEW c
  PROVE  Append(<<a, b>>, c) = <<a, b, c>>
<1> DEFINE S == {a, b, c}
           s == Append(<<a, b>>, c)
           t == <<a, b, c>>
<1>1. s \in Seq(S) /\ t \in Seq(S)
  OBVIOUS
<1>2. Len(s) = 3 /\ Len(t) = 3 /\ s[1] = t[1] /\ s[2] = t[2] /\ s[3] = t[3]
  OBVIOUS
<1> HIDE DEF s, t, S
<1>3. \A i \in 1 .. Len(s) : s[i] = t[i]
  BY <1>2
<1>4. s = t
  BY <1>1, <1>2, <1>3, SeqEqual
<1> QED
  BY <1>4 DEF s, t

\* From the empty chains on, the setup makes them rule by rule.
LEMMA SetupBuilds ==
  ASSUME TypeOK, Ordered, SetupChains, SetupStep
  PROVE  Ordered' /\ SetupChains'
<1>1. at \in 1 .. 16 /\ at' = at + 1 /\ stage = "setup" /\ stage' = "setup"
  BY SetupCommands DEF SetupStep, TypeOK
<1>2. /\ Setup[at].do \in {"hook", "add", "unhook"} => chain' = chain
      /\ Setup[at].do = "flush" => chain' = [chain EXCEPT ![Setup[at].what] = <<>>]
      /\ Setup[at].do = "append" =>
           chain' = [chain EXCEPT ![Setup[at].what] = Append(@, Setup[at].match)]
  BY Executed DEF SetupStep
<1>3. chain \in [Chains -> Seq(Kinds \cup {"any"})]
  BY DEF TypeOK
<1>4. CASE at \in {1, 5, 7, 8, 14, 15, 16}
  <2>1. chain' = chain
    BY <1>2, <1>4, SetupCommands
  <2> QED
    BY <1>1, <1>4, <2>1 DEF SetupChains, Ordered
<1>5. CASE at \in {2, 3, 4}
  <2>1. chain' = [chain EXCEPT ![CASE at = 2 -> "tcp" [] at = 3 -> "doh" [] at = 4 -> "tproxy"] = <<>>]
    BY <1>2, <1>5, SetupCommands
  <2> QED
    BY <1>1, <1>3, <1>5, <2>1 DEF SetupChains, Ordered
<1>6. CASE at = 6
  <2>1. chain' = [chain EXCEPT !["tcp"] = Append(@, "any")]
    BY <1>2, <1>6, SetupCommands
  <2>2. chain["tcp"] = <<>>
    BY <1>1, <1>6 DEF SetupChains
  <2>3. Append(<<>>, "any") = <<"any">>
    OBVIOUS
  <2>4. chain'["tcp"] = <<"any">> /\ \A c \in Chains \ {"tcp"} : chain'[c] = chain[c]
    BY <1>3, <2>1, <2>2, <2>3
  <2> QED
    BY <1>1, <1>6, <2>4 DEF SetupChains, Ordered
<1>7. CASE at = 9
  <2>1. chain' = [chain EXCEPT !["doh"] = Append(@, "local")]
    BY <1>2, <1>7, SetupCommands
  <2>2. chain["doh"] = <<>>
    BY <1>1, <1>7 DEF SetupChains
  <2>3. Append(<<>>, "local") = <<"local">>
    OBVIOUS
  <2>4. chain'["doh"] = <<"local">> /\ \A c \in Chains \ {"doh"} : chain'[c] = chain[c]
    BY <1>3, <2>1, <2>2, <2>3
  <2> QED
    BY <1>1, <1>7, <2>4 DEF SetupChains, Ordered
<1>8. CASE at = 10
  <2>1. chain' = [chain EXCEPT !["tproxy"] = Append(@, "local")]
    BY <1>2, <1>8, SetupCommands
  <2>2. chain["tproxy"] = <<>>
    BY <1>1, <1>8 DEF SetupChains
  <2>3. Append(<<>>, "local") = <<"local">>
    OBVIOUS
  <2>4. chain'["tproxy"] = <<"local">> /\ \A c \in Chains \ {"tproxy"} : chain'[c] = chain[c]
    BY <1>3, <2>1, <2>2, <2>3
  <2> QED
    BY <1>1, <1>8, <2>4 DEF SetupChains, Ordered
<1>9. CASE at = 11
  <2>1. chain' = [chain EXCEPT !["doh"] = Append(@, "default")]
    BY <1>2, <1>9, SetupCommands
  <2>2. chain["doh"] = <<"local">>
    BY <1>1, <1>9 DEF SetupChains
  <2>3. Append(<<"local">>, "default") = <<"local", "default">>
    BY AppendTwo
  <2>4. chain'["doh"] = <<"local", "default">> /\ \A c \in Chains \ {"doh"} : chain'[c] = chain[c]
    BY <1>3, <2>1, <2>2, <2>3
  <2> QED
    BY <1>1, <1>9, <2>4 DEF SetupChains, Ordered
<1>10. CASE at = 12
  <2>1. chain' = [chain EXCEPT !["tproxy"] = Append(@, "default")]
    BY <1>2, <1>10, SetupCommands
  <2>2. chain["tproxy"] = <<"local">>
    BY <1>1, <1>10 DEF SetupChains
  <2>3. Append(<<"local">>, "default") = <<"local", "default">>
    BY AppendTwo
  <2>4. /\ chain'["tproxy"] = <<"local", "default">>
        /\ \A c \in Chains \ {"tproxy"} : chain'[c] = chain[c]
    BY <1>3, <2>1, <2>2, <2>3
  <2> QED
    BY <1>1, <1>10, <2>4 DEF SetupChains, Ordered
<1>11. CASE at = 13
  <2>1. chain' = [chain EXCEPT !["tproxy"] = Append(@, "any")]
    BY <1>2, <1>11, SetupCommands
  <2>2. chain["tproxy"] = <<"local", "default">>
    BY <1>1, <1>11 DEF SetupChains
  <2>3. Append(<<"local", "default">>, "any") = <<"local", "default", "any">>
    BY AppendThree
  <2>4. /\ chain'["tproxy"] = <<"local", "default", "any">>
        /\ \A c \in Chains \ {"tproxy"} : chain'[c] = chain[c]
    BY <1>3, <2>1, <2>2, <2>3
  <2> QED
    BY <1>1, <1>11, <2>4 DEF SetupChains, Ordered
<1> QED
  BY <1>1, <1>4, <1>5, <1>6, <1>7, <1>8, <1>9, <1>10, <1>11

\* No chain gets more than three rules.
LEMMA RulesAreFew ==
  ASSUME NEW rules,
         \/ rules \in {<<>>, <<"any">>}
         \/ rules \in {<<>>, <<"local">>, <<"local", "default">>}
         \/ rules \in {<<>>, <<"local">>, <<"local", "default">>, <<"local", "default", "any">>}
  PROVE  rules \in Seq(Kinds \cup {"any"}) /\ Len(rules) <= 3
<1>1. CASE rules = <<>>
  BY <1>1
<1>2. CASE rules \in {<<"any">>, <<"local">>}
  BY <1>2
<1>3. CASE rules = <<"local", "default">>
  BY <1>3
<1>4. CASE rules = <<"local", "default", "any">>
  BY <1>4
<1> QED
  BY <1>1, <1>2, <1>3, <1>4

\* Every command of the setup keeps the rules in order, the guard first.
LEMMA SetupKeeps ==
  ASSUME RuleInv, SetupStep
  PROVE  RuleInv'
<1>1. at \in 1 .. 16 /\ at' = at + 1 /\ stage = "setup" /\ stage' = "setup"
  BY SetupCommands DEF RuleInv, SetupStep, TypeOK
<1>2. Ordered' /\ SetupChains'
  BY SetupBuilds DEF RuleInv
<1>3. hooks' = IF Setup[at].do \in {"hook", "add"} THEN hooks \cup {Setup[at].what} ELSE hooks
  BY <1>1, SetupKinds, Executed DEF RuleInv, SetupStep
<1>4. SetupHooks'
  BY <1>1, <1>3 DEF RuleInv, SetupHooks
<1>5. GuardStands'
  <2>1. CASE at = 1
    BY <1>3, <2>1, SetupCommands DEF GuardStands
  <2>2. CASE at # 1
    BY <1>1, <1>3, <2>2 DEF RuleInv, GuardStands
  <2> QED
    BY <2>1, <2>2
<1>6. TypeOK'
  <2>1. hooks' \subseteq Hooks
    BY <1>1, <1>3, SetupKinds DEF RuleInv, TypeOK
  <2>2. \A c \in Chains : chain'[c] \in Seq(Kinds \cup {"any"}) /\ Len(chain'[c]) <= 3
    BY <1>2, RulesAreFew DEF Ordered
  <2>3. chain' = [c \in Chains |-> chain'[c]]
    <3>1. \/ chain' = chain
          \/ chain' = [chain EXCEPT ![Setup[at].what] = <<>>]
          \/ chain' = [chain EXCEPT ![Setup[at].what] = Append(@, Setup[at].match)]
      BY <1>1, SetupKinds, Executed DEF RuleInv, SetupStep
    <3> QED
      BY <3>1 DEF RuleInv, TypeOK
  <2>4. chain' \in [Chains -> Seq(Kinds \cup {"any"})]
    BY <2>2, <2>3
  <2> QED
    BY <1>1, <2>1, <2>2, <2>4, SetupCommands DEF RuleInv, TypeOK, SetupStep
<1> QED
  BY <1>1, <1>2, <1>4, <1>5, <1>6 DEF RuleInv, AtTheStart, CleanupFits, CleanupGone, ServingIsFresh,
     StoppedIsClean

\* Every command of the cleanup takes its rules away, and after the last only the
\* guard is left.
LEMMA CleanupKeeps ==
  ASSUME RuleInv, CleanupStep
  PROVE  RuleInv'
<1>1. stage = "cleanup" /\ Execute(Cleanup[at])
  BY DEF CleanupStep
<1>2. at \in 1 .. 9
  BY <1>1 DEF RuleInv, CleanupFits
<1>3. hooks' = IF Cleanup[at].do = "unhook" THEN hooks \ {Cleanup[at].what} ELSE hooks
  BY <1>1, <1>2, CleanupKinds, Executed DEF RuleInv
<1>4. \/ chain' = chain /\ Cleanup[at].do = "unhook"
      \/ /\ chain' = [chain EXCEPT ![Cleanup[at].what] = <<>>]
         /\ Cleanup[at].do = "flush" /\ Cleanup[at].what \in Chains
  BY <1>1, <1>2, CleanupKinds, Executed DEF RuleInv
<1>5. Ordered'
  BY <1>4 DEF RuleInv, Ordered, TypeOK
<1>6. GuardStands'
  BY <1>1, <1>2, <1>3, CleanupKinds DEF RuleInv, GuardStands
<1>7. \A i \in 1 .. at :
        /\ Cleanup[i].do = "unhook" => Cleanup[i].what \notin hooks'
        /\ Cleanup[i].do = "flush" => chain'[Cleanup[i].what] = <<>>
  <2> TAKE i \in 1 .. at
  <2>1. CASE i = at
    BY <1>3, <1>4, <2>1 DEF RuleInv, TypeOK
  <2>2. CASE i # at
    <3>1. /\ Cleanup[i].do = "unhook" => Cleanup[i].what \notin hooks
          /\ Cleanup[i].do = "flush" => chain[Cleanup[i].what] = <<>>
      BY <1>1, <1>2, <2>2 DEF RuleInv, CleanupGone
    <3>2. i \in 1 .. 9
      BY <1>2
    <3> QED
      BY <1>3, <1>4, <3>1, <3>2, CleanupKinds DEF RuleInv, TypeOK
  <2> QED
    BY <2>1, <2>2
<1>8. TypeOK'
  <2>1. hooks' \subseteq Hooks
    BY <1>3 DEF RuleInv, TypeOK
  <2>2. \A c \in Chains : chain'[c] \in Seq(Kinds \cup {"any"}) /\ Len(chain'[c]) <= 3
    BY <1>5, RulesAreFew DEF Ordered
  <2>3. chain' = [c \in Chains |-> chain'[c]]
    BY <1>4 DEF RuleInv, TypeOK
  <2>4. at' \in 1 .. 9 /\ stage' \in {"cleanup", "ending"}
    BY <1>1, <1>2, CleanupCommands DEF CleanupStep
  <2>5. chain' \in [Chains -> Seq(Kinds \cup {"any"})]
    BY <2>2, <2>3
  <2>6. UNCHANGED <<alive, queryVars>>
    BY DEF CleanupStep
  <2> QED
    BY <2>1, <2>2, <2>4, <2>5, <2>6, SetupCommands DEF RuleInv, TypeOK
<1>9. CASE at < 9
  <2>1. at' = at + 1 /\ stage' = stage
    BY <1>9, CleanupCommands DEF CleanupStep
  <2> QED
    BY <1>1, <1>2, <1>5, <1>6, <1>7, <1>8, <1>9, <2>1 DEF RuleInv, AtTheStart, SetupHooks,
       SetupChains, CleanupFits, CleanupGone, ServingIsFresh, StoppedIsClean
<1>10. CASE at = 9
  <2>1. at' = 1 /\ stage' = "ending"
    BY <1>10, CleanupCommands DEF CleanupStep
  <2>2. hooks' \cap {"tcp", "doh", "mark", "tproxy", "policy", "route"} = {}
    BY <1>7, <1>10, CleanupCommands
  <2>3. chain'["tcp"] = <<>> /\ chain'["doh"] = <<>> /\ chain'["tproxy"] = <<>>
    BY <1>7, <1>10, CleanupCommands
  <2>4. hooks' = {"guard"}
    BY <1>6, <1>8, <2>1, <2>2 DEF GuardStands, TypeOK
  <2>5. chain' = Empty
    BY <1>8, <2>3 DEF TypeOK
  <2> QED
    BY <1>5, <1>6, <1>8, <2>1, <2>4, <2>5 DEF RuleInv, AtTheStart, SetupHooks, SetupChains,
       CleanupFits, CleanupGone, ServingIsFresh, StoppedIsClean
<1> QED
  BY <1>2, <1>9, <1>10

\* A reboot leaves no rule.
LEMMA RebootKeeps ==
  ASSUME RuleInv, HostReboot
  PROVE  RuleInv'
<1>1. TypeOK'
  BY SetupCommands DEF RuleInv, TypeOK, HostReboot, Survive
<1> QED
  BY <1>1 DEF RuleInv, HostReboot, Ordered, AtTheStart, GuardStands, SetupHooks, SetupChains,
     CleanupFits, CleanupGone, ServingIsFresh, StoppedIsClean

\* What starts the daemons has made all the rules.
LEMMA StartKeeps ==
  ASSUME RuleInv, StartDaemons
  PROVE  RuleInv'
<1>1. stage = "setup" /\ at = 17 /\ stage' = "serving" /\ at' = 1 /\ UNCHANGED ruleVars
  BY SetupCommands DEF StartDaemons
<1>2. TypeOK'
  BY SetupCommands DEF RuleInv, TypeOK, StartDaemons
<1>3. hooks = Hooks
  <2>1. \A i \in 1 .. 16 : Setup[i].do \in {"hook", "add"} => Setup[i].what \in hooks
    BY <1>1 DEF RuleInv, SetupHooks
  <2>2. {"guard", "tcp", "doh", "tproxy", "mark", "policy", "route"} \subseteq hooks
    BY <2>1, SetupCommands
  <2> QED
    BY <2>2 DEF RuleInv, TypeOK
<1>4. chain = [tcp |-> <<"any">>, doh |-> <<"local", "default">>,
               tproxy |-> <<"local", "default", "any">>]
  <2>1. /\ chain["tcp"] = <<"any">> /\ chain["doh"] = <<"local", "default">>
        /\ chain["tproxy"] = <<"local", "default", "any">>
    BY <1>1 DEF RuleInv, SetupChains
  <2>2. chain = [c \in {"tcp", "doh", "tproxy"} |-> chain[c]]
    BY DEF RuleInv, TypeOK
  <2> QED
    BY <2>1, <2>2
<1> QED
  BY <1>1, <1>2, <1>3, <1>4 DEF RuleInv, Ordered, AtTheStart, GuardStands, SetupHooks,
     SetupChains, CleanupFits, CleanupGone, ServingIsFresh, StoppedIsClean

\* The other steps of the script leave the rules, and are where one begins or ends.
LEMMA ScriptKeeps ==
  ASSUME RuleInv, Begin \/ Abort \/ EndServing \/ Exit \/ Kill
  PROVE  RuleInv'
<1>1. /\ UNCHANGED ruleVars
      /\ at' = 1 /\ stage' \in {"off", "setup", "cleanup"}
      /\ stage' = "cleanup" => stage = "serving" \/ at > 1
  BY DEF RuleInv, TypeOK, AtTheStart, Begin, Abort, EndServing, Exit, Kill
<1>2. /\ alive' \subseteq Daemons
      /\ task' \in [Queries -> Pending \cup {"unsent", "answered", "lost"}]
      /\ held' \subseteq Queries /\ UNCHANGED <<relay, via>>
  BY DEF RuleInv, TypeOK, Begin, Abort, EndServing, Exit, Kill, Survive
<1>3. TypeOK'
  BY <1>1, <1>2, SetupCommands DEF RuleInv, TypeOK
<1> QED
  BY <1>1, <1>3 DEF RuleInv, Ordered, AtTheStart, GuardStands, SetupHooks,
     SetupChains, CleanupFits, CleanupGone, ServingIsFresh, StoppedIsClean

\* Daemons that die and queries leave the rules and the script.
LEMMA QueriesKeep ==
  ASSUME RuleInv, TypeOK', UNCHANGED <<ruleVars, stage, at>>
  PROVE  RuleInv'
  BY DEF RuleInv, Ordered, AtTheStart, GuardStands, SetupHooks,
     SetupChains, CleanupFits, CleanupGone, ServingIsFresh, StoppedIsClean

\* A daemon takes its queries with it, and no rule.
LEMMA DaemonDiesKeeps ==
  ASSUME RuleInv, NEW d \in Daemons, DaemonDies(d)
  PROVE  RuleInv'
<1>1. TypeOK'
  BY SetupCommands DEF RuleInv, TypeOK, DaemonDies, Survive
<1> QED
  BY <1>1, QueriesKeep DEF DaemonDies

\* A step of a query or of a relay changes no rule.
LEMMA QueryKeeps ==
  ASSUME RuleInv, NEW q \in Queries,
         \/ DohReceive(q) \/ TproxyReceive(q) \/ Miss(q)
         \/ Enter(q) \/ DohConnect(q) \/ TcpConnect(q) \/ Finish(q)
  PROVE  RuleInv'
<1> USE DEF DohReceive, TproxyReceive, Miss, Enter, DohAcquire, TcpAcquire, DohConnect,
            TcpConnect, Finish, DohEnd, TcpEnd, Receive, Acquire, Connect, End, Move
<1>1. UNCHANGED <<ruleVars, scriptVars>>
  OBVIOUS
<1>2. task' \in [Queries -> Pending \cup {"unsent", "answered", "lost"}]
  BY DEF RuleInv, TypeOK
<1>3. relay' \in [Queries -> {"none", "doh", "udp2tcp"}] /\ held' \subseteq Queries
  BY DEF RuleInv, TypeOK
<1>4. via' \in [Queries -> {"none", "proxy", "direct"}]
  BY DEF RuleInv, TypeOK
<1>5. TypeOK'
  BY <1>1, <1>2, <1>3, <1>4 DEF RuleInv, TypeOK
<1> QED
  BY <1>1, <1>5, QueriesKeep

\* What the rules are at each place of the script, in every reachable state.
LEMMA RuleInvariance == Spec => []RuleInv
<1>1. Init => RuleInv
  <2> SUFFICES ASSUME Init PROVE RuleInv
    OBVIOUS
  <2>1. TypeOK
    BY SetupCommands DEF Init, TypeOK
  <2> QED
    BY <2>1 DEF Init, RuleInv, Ordered, AtTheStart, GuardStands, SetupHooks, SetupChains,
       CleanupFits, CleanupGone, ServingIsFresh, StoppedIsClean
<1>2. RuleInv /\ [Next]_vars => RuleInv'
  <2> SUFFICES ASSUME RuleInv, [Next]_vars PROVE RuleInv'
    OBVIOUS
  <2>1. CASE UNCHANGED vars
    BY <2>1, QueriesKeep DEF vars, RuleInv, TypeOK
  <2>2. CASE Next
    BY <2>2, SetupKeeps, CleanupKeeps, RebootKeeps, StartKeeps, ScriptKeeps,
       DaemonDiesKeeps, QueryKeeps DEF Next
  <2> QED
    BY <2>1, <2>2
<1> QED
  BY <1>1, <1>2, PTL DEF Spec

----------------------------------------------------------------------------
\* Type correctness for any queries; no chain grows from run to run.
THEOREM GatewayTypeOK == Spec => []TypeOK
<1>1. RuleInv => TypeOK
  BY DEF RuleInv
<1> QED
  BY RuleInvariance, <1>1, PTL

\* Whatever runs cut anywhere have left, the daemons serve under the rules of a
\* first start.
THEOREM GatewayServesFresh == Spec => []ServingIsFresh
<1>1. RuleInv => ServingIsFresh
  BY DEF RuleInv
<1> QED
  BY RuleInvariance, <1>1, PTL

\* A cleanup that gets to its end has removed the rules of every earlier run, but for
\* the guard.
THEOREM GatewayStopsClean == Spec => []StoppedIsClean
<1>1. RuleInv => StoppedIsClean
  BY DEF RuleInv
<1> QED
  BY RuleInvariance, <1>1, PTL

\* Under the guard, a query reaches the relay that is meant for it or none, at every
\* command of a setup or a cleanup over whatever was left.
THEOREM GatewayRoutes == Spec => []RoutedRight
<1>1. RuleInv => RoutedRight
  <2> SUFFICES ASSUME RuleInv, "guard" \in hooks, NEW dest \in Kinds
               PROVE  Route(dest) \in {RelayFor(dest), "dropped"}
    BY DEF RuleInv, GuardStands, RoutedRight
  <2>1. Diverted(dest) => dest = "other"
    BY DEF RuleInv, Ordered, Diverted, Matching
  <2>2. Redirected(dest) => dest # "other"
    BY DEF RuleInv, Ordered, Redirected, Matching
  <2> QED
    BY <2>1, <2>2 DEF Route, RelayFor, Unserved
<1> QED
  BY RuleInvariance, <1>1, PTL

----------------------------------------------------------------------------
(* The semaphores. *)

\* Slots that come free leave room.
LEMMA FewerFit ==
  ASSUME SlotsAreOwned, held \subseteq Queries, held' \subseteq held, relay' = relay
  PROVE  \A by \in {"doh", "udp2tcp"} : Cardinality({q \in held' : relay'[q] = by}) <= Limit
<1> TAKE by \in {"doh", "udp2tcp"}
<1> DEFINE before == {q \in held : relay[q] = by}
           after == {q \in held' : relay'[q] = by}
<1>1. before \subseteq Queries /\ after \subseteq before
  OBVIOUS
<1>2. IsFiniteSet(before)
  BY <1>1, FS_Subset
<1>3. Cardinality(after) <= Cardinality(before) /\ IsFiniteSet(after)
  BY <1>1, <1>2, FS_Subset
<1>4. Cardinality(before) \in Nat /\ Cardinality(after) \in Nat /\ Cardinality(before) <= Limit
  BY <1>2, <1>3, FS_CardinalityType DEF SlotsAreOwned
<1> QED
  BY <1>3, <1>4

\* A slot is taken only where one is free.
LEMMA AcquireFits ==
  ASSUME TypeOK, SlotsAreOwned, NEW q \in Queries, NEW by \in {"doh", "udp2tcp"},
         Acquire(q, by)
  PROVE  SlotsAreOwned'
<1>1. /\ held' = held \cup {q} /\ relay' = relay /\ relay[q] = by
      /\ task' = [task EXCEPT ![q] = "connecting"] /\ q \notin held
  BY DEF Acquire, Move, SlotsAreOwned
<1>2. ASSUME NEW other \in {"doh", "udp2tcp"}
      PROVE  Cardinality({x \in held' : relay'[x] = other}) <= Limit
  <2> DEFINE before == {x \in held : relay[x] = other}
             after == {x \in held' : relay'[x] = other}
  <2>1. IsFiniteSet(before) /\ Cardinality(before) \in Nat /\ Cardinality(before) <= Limit
    BY FS_Subset, FS_CardinalityType DEF TypeOK, SlotsAreOwned
  <2>2. CASE other = by
    <3>1. after = before \cup {q} /\ q \notin before
      BY <1>1, <2>2
    <3>2. Cardinality(after) = Cardinality(before) + 1
      BY <2>1, <3>1, FS_AddElement
    <3>3. Cardinality(before) < Limit
      BY <2>2 DEF Acquire
    <3> QED
      BY <2>1, <3>2, <3>3
  <2>3. CASE other # by
    <3>1. after = before
      BY <1>1, <2>3
    <3> QED
      BY <2>1, <3>1
  <2> QED
    BY <2>2, <2>3
<1>3. \A x \in Queries : x \in held' <=> task'[x] \in {"connecting", "exchanging"}
  BY <1>1 DEF TypeOK, SlotsAreOwned
<1> QED
  BY <1>2, <1>3 DEF SlotsAreOwned

\* The slots are owned at any time: a daemon that dies, an error and an answer give
\* them back.
THEOREM GatewaySlots == Spec => []SlotsAreOwned
<1>1. Init => SlotsAreOwned
  <2> SUFFICES ASSUME Init PROVE SlotsAreOwned
    OBVIOUS
  <2>1. \A by \in {"doh", "udp2tcp"} : {q \in held : relay[q] = by} = {}
    BY DEF Init
  <2> QED
    BY <2>1, FS_EmptySet DEF Init, SlotsAreOwned
<1>2. TypeOK /\ SlotsAreOwned /\ [Next]_vars => SlotsAreOwned'
  <2> SUFFICES ASSUME TypeOK, SlotsAreOwned, [Next]_vars PROVE SlotsAreOwned'
    OBVIOUS
  <2>1. CASE UNCHANGED queryVars
    BY <2>1 DEF SlotsAreOwned
  <2>2. ASSUME NEW survivors \in SUBSET Daemons, Survive(survivors)
        PROVE  SlotsAreOwned'
    <3>1. held' \subseteq held /\ held' \subseteq Queries /\ relay' = relay
      BY <2>2 DEF Survive, TypeOK
    <3>2. \A q \in Queries : q \in held' <=> task'[q] \in {"connecting", "exchanging"}
      BY <2>2 DEF Survive, TypeOK, SlotsAreOwned
    <3> QED
      BY <3>1, <3>2, FewerFit DEF TypeOK, SlotsAreOwned
  <2>3. ASSUME NEW q \in Queries, NEW by \in {"doh", "udp2tcp"}, Receive(q, by) \/ Miss(q) \/ Connect(q, by)
        PROVE  SlotsAreOwned'
    <3>1. held' = held
      BY <2>3 DEF Receive, Miss, Connect
    <3>2. \A x \in held : relay'[x] = relay[x]
      BY <2>3 DEF Receive, Miss, Connect, TypeOK, SlotsAreOwned
    <3>3. \A x \in Queries : x \in held' <=> task'[x] \in {"connecting", "exchanging"}
      BY <2>3 DEF Receive, Miss, Connect, Move, TypeOK, SlotsAreOwned
    <3>4. \A k \in {"doh", "udp2tcp"} : {x \in held' : relay'[x] = k} = {x \in held : relay[x] = k}
      BY <3>1, <3>2
    <3> QED
      BY <3>3, <3>4 DEF SlotsAreOwned
  <2>4. ASSUME NEW q \in Queries, NEW by \in {"doh", "udp2tcp"}, End(q, by)
        PROVE  SlotsAreOwned'
    <3>1. held' = held \ {q} /\ relay' = relay
      BY <2>4 DEF End
    <3>2. \A x \in Queries : x \in held' <=> task'[x] \in {"connecting", "exchanging"}
      BY <2>4 DEF End, Move, TypeOK, SlotsAreOwned
    <3> QED
      BY <3>1, <3>2, FewerFit DEF TypeOK, SlotsAreOwned
  <2>5. CASE \E d \in Daemons : DaemonDies(d)
    BY <2>2, <2>5 DEF DaemonDies, TypeOK
  <2>6. CASE Exit \/ Kill \/ HostReboot
    BY <2>2, <2>6 DEF Exit, Kill, HostReboot
  <2>7. CASE Begin \/ SetupStep \/ Abort \/ StartDaemons \/ EndServing \/ CleanupStep
    BY <2>1, <2>7 DEF Begin, SetupStep, Abort, StartDaemons, EndServing, CleanupStep
  <2>8. CASE \E q \in Queries : Enter(q)
    BY <2>8, AcquireFits DEF Enter, DohAcquire, TcpAcquire
  <2> QED
    BY <2>1, <2>3, <2>4, <2>5, <2>6, <2>7, <2>8 DEF vars, Next, DohReceive, TproxyReceive,
       DohConnect, TcpConnect, Finish, DohEnd, TcpEnd
<1> QED
  BY <1>1, <1>2, GatewayTypeOK, PTL DEF Spec

=============================================================================
