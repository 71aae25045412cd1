-------------------------- MODULE MCResearchChain ---------------------------
(***************************************************************************)
(* The steps of a DEV study before and after its replays, each on small    *)
(* instances of its own: in the part "audit" eight days go through the     *)
(* rule gate, in "cutoff" relistings of every shape are audited, in        *)
(* "execute" one remediation is carried out, in "prep" two runs of the     *)
(* transport write their files, in "resume" a plan is followed, in         *)
(* "publish" a result is published.                                        *)
(***************************************************************************)
EXTENDS RuleAudit, LifecycleExecution, RunPublication, ReplayPrep, ReplayCheckpoint, TLC

VARIABLE part

\* Rules that change at the start of a day, within one, and leave gaps.
Rule(symbol, from, to, grade) ==
  [symbol |-> symbol, from |-> from, to |-> to, grade |-> grade, tick |-> 1]
MCRegistries ==
  {{Rule(1, 0, NoEnd, "VERIFIED"), Rule(2, 0, NoEnd, "APPROXIMATE")},
   {Rule(1, 0, 3, "APPROXIMATE"), Rule(1, 3, 5, "UNUSABLE"), Rule(2, 5, NoEnd, "VERIFIED")},
   {Rule(1, 3, 4, "VERIFIED"), Rule(1, 8, NoEnd, "APPROXIMATE"),
    Rule(2, 0, 5, "UNUSABLE"), Rule(2, 7, 11, "VERIFIED")},
   {Rule(2, 2, 6, "UNUSABLE")}}

\* Any members in the four DEV days; or the last day has no snapshot.
Later == [d \in 4 .. 7 |-> Symbols]
MCMemberships == {f @@ Later : f \in [0 .. 3 -> SUBSET Symbols]} \cup {[d \in 0 .. 6 |-> Symbols]}

\* Windows of seven minutes: two that overlap, and two apart.
Request(id, symbol, confirmation) ==
  [id |-> id, symbol |-> symbol, confirmation |-> confirmation, bars |-> 2]
MCRequestSets ==
  {<<Request(1, 1, 4), Request(2, 1, 6)>>, <<Request(2, 1, 14), Request(1, 1, 4)>>}

\* Answers with a settlement that has no mark price, a minute without a candle, a
\* settlement not yet shown, settlements at the edges of a window, special ones,
\* nothing amiss, and a page that is full.
Answer(minutes, times, open, special) ==
  [minutes |-> [s \in {1} |-> minutes],
   settlements |-> [s \in {1} |-> [t \in times |->
     IF t \in open THEN "UNMARKED" ELSE IF t \in special THEN "SPECIAL" ELSE "MARKED"]]]
Always == 0 .. 30
Usual == {2, 8, 12, 16, 24}
LaterViews == {Answer(Always, Usual, {}, {}), Answer(Always, Usual \ {8}, {}, {})}
MCViews ==
  LaterViews \cup
  {Answer(Always, Usual, {8}, {}), Answer(Always \ {10}, Usual, {}, {}),
   Answer(Always, {2, 4, 10, 12, 14, 20, 24}, {4, 10}, {}), Answer(Always, Usual, {}, {10, 12}),
   Answer(Always, Usual \cup {6, 7}, {}, {})}

MCManifests == UNION {[q -> {1, 2}] : q \in SUBSET {1, 2, 3} \ {{}}}

\* Hours in quarters of two: a month of two days of three 4h-buckets each.
MCStep == ("15m" :> 2) @@ ("1h" :> 4) @@ ("4h" :> 8) @@ ("1d" :> 24)
World(halted, settling, settled, listed, registered, outage) ==
  [halted |-> halted, settling |-> settling, settled |-> settled, listed |-> listed,
   registered |-> registered, outage |-> outage]
\* The old contract stops on the day of the new one, which starts within a quarter.
UsualWorld == World(26, 34, 38, 41, 41, {})
\* The registry is right, a little off, or names the start of a bucket.
MCWorlds ==
  {UsualWorld} \cup
  {w \in {World(halted, halted + gap, settled, listed, registered, outage) :
            halted \in {16, 25, 28}, gap \in {0, 2, 8}, settled \in {33, 36, 38},
            listed \in {36, 39, 40, 41, 44, 47}, registered \in {NoTime} \cup (32 .. 47),
            outage \in {{}, {42, 43}}} :
     /\ w.settling < w.settled
     /\ w.registered \in {NoTime, w.listed - 1, w.listed, Floor(w.listed, "4h")}}

\* The first state of a part that does not run.
AuditIdle ==
  /\ registry = {Rule(2, 2, 6, "UNUSABLE")} /\ members = [d \in 0 .. 6 |-> Symbols]
  /\ frozen = members
PrepIdle ==
  /\ accepted = <<Request(1, 1, 4), Request(2, 1, 6)>>
  /\ view = [run \in Runs |-> Answer(Always, Usual, {}, {})]
  /\ setting = [run \in Runs |-> [store |-> run, attempts |-> 3]]
CheckpointIdle == manifest = [r \in {1} |-> 1]

\* In the part "prep" the second run gets one of the later answers.
PrepStarts ==
  /\ view \in {v \in [Runs -> Views] : v[2] \in LaterViews}
  /\ setting \in {c \in [Runs -> [store : Stores, attempts : 3 .. 4]] :
                   c[1] = [store |-> 1, attempts |-> 3]}

Init ==
  /\ part \in {"audit", "cutoff", "execute", "prep", "resume", "publish"}
  /\ (part # "cutoff" => world = UsualWorld)
  /\ (IF part = "execute" THEN build \in [Executors -> Builds] /\ build[1] = 1
      ELSE build = [p \in Executors |-> 1])
  /\ LifecycleInit
  /\ (part # "audit" => AuditIdle) /\ AuditInit
  /\ (IF part = "prep" THEN PrepStarts ELSE PrepIdle) /\ PrepInit
  /\ (part # "resume" => CheckpointIdle) /\ CheckpointInit
  /\ PublicationInit

\* Of two finalizations one is interrupted before the other begins.
OneAtATime == Cardinality({run \in Runs : at[run] > 1 /\ stage[run] = "COMPLETE"}) <= 1

Next ==
  /\ UNCHANGED part
  /\ \/ part = "audit" /\ AuditNext /\ UNCHANGED <<lifecycleVars, prepVars, checkpointVars, pubVars>>
     \/ part \in {"cutoff", "execute"} /\ PlanRemediation
          /\ UNCHANGED <<auditVars, prepVars, checkpointVars, pubVars>>
     \/ part = "execute" /\ ExecutionNext /\ UNCHANGED <<auditVars, prepVars, checkpointVars, pubVars>>
     \/ part = "prep" /\ PrepNext /\ OneAtATime'
          /\ UNCHANGED <<auditVars, lifecycleVars, checkpointVars, pubVars>>
     \/ part = "resume" /\ CheckpointNext /\ UNCHANGED <<auditVars, lifecycleVars, prepVars, pubVars>>
     \/ part = "publish" /\ PublicationNext
          /\ UNCHANGED <<auditVars, lifecycleVars, prepVars, checkpointVars>>

Spec == Init /\ [][Next]_<<auditVars, lifecycleVars, prepVars, checkpointVars, pubVars, part>>
=============================================================================
