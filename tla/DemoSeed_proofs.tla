--------------------------- MODULE DemoSeed_proofs ---------------------------
(***************************************************************************)
(* What the seeding script leaves in the database, proved for every        *)
(* manifest that DemoSeed's assumptions admit, for any number of faults,   *)
(* restarts and decisions of others.                                       *)
(*                                                                         *)
(* The invariant has one part for each table and one for the place where   *)
(* the script stands; what the script has gone past is there.  The history *)
(* of deployments needs most: how far it has come says which versions are  *)
(* in production and which are deprecated, so what the script finds at a   *)
(* step, in the history or in what it has fetched, tells it whether the    *)
(* step has been done.                                                     *)
(***************************************************************************)
EXTENDS DemoSeed, FiniteSetTheorems, SequenceTheorems, TLAPS

-----------------------------------------------------------------------------
(* The invariant.                                                          *)

\* The script stands at a seed of the list that it goes through.
ScriptOK ==
    /\ script.next >= 1
    /\ script.pc = "versions" => script.next <= Len(VersionSeeds)
    /\ script.pc \in {"runs", "approval", "review"} => script.next <= Len(RunSeeds)
    /\ script.pc \in {"approval", "review"} => RunSeeds[script.next].review \in Decisions
    /\ script.pc = "evaluations" => script.next <= Len(EvaluationSeeds)
    /\ script.pc = "deployments" => script.next <= Len(DeploymentSeeds)

VersionsDone ==
    /\ script.pc = "versions" =>
          \A m \in 1..(script.next - 1) : versions[VersionSeeds[m]] # "ABSENT"
    /\ script.pc \notin {"idle", "versions"} => \A v \in Versions : versions[v] # "ABSENT"

\* The runs are those of an earlier script, not one with a key yet, or each is
\* the only one of a seed.
Fresh ==
    /\ script.pc \in {"idle", "versions", "normalize"}
    /\ \A i \in DOMAIN runs : runs[i].key = NoKey /\ runs[i].approval = "none"
    /\ \A input \in Inputs : Cardinality(Keyless(input)) <= Cardinality(SeedsOf(input))
RunFor(i, n) ==
    /\ runs[i].key = RunSeeds[n].key
    /\ runs[i].input = RunSeeds[n].input
    /\ RunSeeds[n].review = "none" => runs[i].approval = "none"
Seeded ==
    /\ \A i \in DOMAIN runs : \E n \in DOMAIN RunSeeds : RunFor(i, n)
    /\ \A i, j \in DOMAIN runs : runs[i].key = runs[j].key => i = j
RunsOK == Fresh \/ Seeded

RunDone(s) ==
    \E i \in DOMAIN runs :
        runs[i].key = s.key /\ (s.review \in Decisions => runs[i].approval \in Decisions)
RunsDone ==
    /\ script.pc \in {"runs", "approval", "review"} =>
          \A m \in 1..(script.next - 1) : RunDone(RunSeeds[m])
    /\ script.pc \in {"approval", "review"} => HasRun(RunSeeds[script.next].key)
    /\ script.pc \in {"evaluations", "deployments", "finish", "done"} =>
          \A m \in DOMAIN RunSeeds : RunDone(RunSeeds[m])

EvaluationsOK ==
    /\ \A i \in DOMAIN evaluations : evaluations[i].version \in Elements(EvaluationSeeds)
    /\ \A i, j \in DOMAIN evaluations : evaluations[i].version = evaluations[j].version => i = j
EvaluationsDone ==
    /\ script.pc = "evaluations" =>
          \A m \in 1..(script.next - 1) : Evaluated(EvaluationSeeds[m])
    /\ script.pc \in {"deployments", "finish", "done"} =>
          \A m \in DOMAIN EvaluationSeeds : Evaluated(EvaluationSeeds[m])

\* After the first k steps of the manifest v is in production; it is deprecated.
InCharge(k, v) ==
    \E m \in 1..k :
        /\ Puts(m) /\ DeploymentSeeds[m].target = v
        /\ \A j \in (m + 1)..k : ~PutsFor(j, v)
Retired(k, v) == \E m \in 1..k : Retires(m, v)

\* The lifecycles are what the history says; those that the script has fetched
\* were so at some time.
LifecyclesOK ==
    \A v \in Versions :
        /\ versions[v] = "PRODUCTION" <=> InCharge(Len(events), v)
        /\ versions[v] = "DEPRECATED" <=> Retired(Len(events), v)
        /\ script.lifecycles[v] = "PRODUCTION" =>
              \E m \in 1..Len(events) : Puts(m) /\ DeploymentSeeds[m].target = v
        /\ script.lifecycles[v] = "DEPRECATED" => Retired(Len(events), v)

EventsDone ==
    /\ script.pc = "deployments" => script.next <= Len(events) + 1
    /\ script.pc \in {"finish", "done"} => Len(events) = Len(DeploymentSeeds)

\* What the script has gone past is there.
Progress == ScriptOK /\ VersionsDone /\ RunsDone /\ EvaluationsDone /\ EventsDone

IInv ==
    /\ TypeOK /\ Progress
    /\ RunsOK /\ EvaluationsOK
    /\ HistoryFollowsManifest /\ LifecyclesOK

-----------------------------------------------------------------------------
(* The manifest.                                                           *)

LEMMA NotEmpty ==
    ASSUME NEW S, NEW s \in Seq(S) \ {<<>>}
    PROVE  /\ Len(s) \in Nat /\ 1 <= Len(s) /\ DOMAIN s = 1..Len(s)
           /\ \A n \in DOMAIN s : s[n] \in S
BY EmptySeq

\* The lists of the manifest are sequences of their seeds, none empty.
LEMMA Lists ==
    /\ Len(VersionSeeds) \in Nat /\ 1 <= Len(VersionSeeds)
    /\ DOMAIN VersionSeeds = 1..Len(VersionSeeds)
    /\ Len(RunSeeds) \in Nat /\ 1 <= Len(RunSeeds)
    /\ DOMAIN RunSeeds = 1..Len(RunSeeds)
    /\ Len(EvaluationSeeds) \in Nat /\ 1 <= Len(EvaluationSeeds)
    /\ DOMAIN EvaluationSeeds = 1..Len(EvaluationSeeds)
    /\ Len(DeploymentSeeds) \in Nat /\ 1 <= Len(DeploymentSeeds)
    /\ DOMAIN DeploymentSeeds = 1..Len(DeploymentSeeds)
<1> USE ConstantsAssumption, NotEmpty
<1>1. /\ Len(VersionSeeds) \in Nat /\ 1 <= Len(VersionSeeds)
      /\ DOMAIN VersionSeeds = 1..Len(VersionSeeds)
    OBVIOUS
<1>2. /\ Len(RunSeeds) \in Nat /\ 1 <= Len(RunSeeds)
      /\ DOMAIN RunSeeds = 1..Len(RunSeeds)
    OBVIOUS
<1>3. /\ Len(EvaluationSeeds) \in Nat /\ 1 <= Len(EvaluationSeeds)
      /\ DOMAIN EvaluationSeeds = 1..Len(EvaluationSeeds)
    OBVIOUS
<1>4. /\ Len(DeploymentSeeds) \in Nat /\ 1 <= Len(DeploymentSeeds)
      /\ DOMAIN DeploymentSeeds = 1..Len(DeploymentSeeds)
    OBVIOUS
<1>. QED
    BY <1>1, <1>2, <1>3, <1>4

LEMMA Seeds ==
    /\ \A n \in DOMAIN VersionSeeds : VersionSeeds[n] \in Versions
    /\ \A n \in DOMAIN RunSeeds :
          RunSeeds[n] \in [key : Keys, input : Inputs, review : Reviews]
    /\ \A n \in DOMAIN EvaluationSeeds : EvaluationSeeds[n] \in Versions
    /\ \A n \in DOMAIN DeploymentSeeds :
          DeploymentSeeds[n] \in [action : Actions, source : Versions \cup {NoVersion}, target : Versions]
<1> USE ConstantsAssumption, NotEmpty
<1>1. \A n \in DOMAIN VersionSeeds : VersionSeeds[n] \in Versions
    OBVIOUS
<1>2. \A n \in DOMAIN RunSeeds :
          RunSeeds[n] \in [key : Keys, input : Inputs, review : Reviews]
    OBVIOUS
<1>3. \A n \in DOMAIN EvaluationSeeds : EvaluationSeeds[n] \in Versions
    OBVIOUS
<1>4. \A n \in DOMAIN DeploymentSeeds :
          DeploymentSeeds[n] \in [action : Actions, source : Versions \cup {NoVersion}, target : Versions]
    OBVIOUS
<1>. QED
    BY <1>1, <1>2, <1>3, <1>4

\* A promotion or rollback puts its target in charge of the agent, in place of
\* whichever version was; a deprecation leaves that as it is.
LEMMA AfterPut ==
    ASSUME NEW n \in DOMAIN DeploymentSeeds, Puts(n), NEW v \in Versions
    PROVE  /\ InCharge(n, v) <=> \/ v = DeploymentSeeds[n].target
                                 \/ ~PutsFor(n, v) /\ InCharge(n - 1, v)
           /\ Retired(n, v) <=> Retired(n - 1, v)
<1>1. n \in Nat /\ 1 <= n /\ n - 1 \in Nat
    BY Lists
<1>2. ~Retires(n, v)
    BY DEF Puts, Retires
<1>3. Retired(n, v) <=> Retired(n - 1, v)
    BY <1>1, <1>2 DEF Retired
<1>4. v = DeploymentSeeds[n].target => InCharge(n, v) /\ PutsFor(n, v)
    BY <1>1 DEF InCharge, PutsFor, SameAgent
<1>5. ASSUME v # DeploymentSeeds[n].target, InCharge(n, v)
      PROVE  ~PutsFor(n, v) /\ InCharge(n - 1, v)
    <2>1. PICK m \in 1..n : /\ Puts(m) /\ DeploymentSeeds[m].target = v
                            /\ \A j \in (m + 1)..n : ~PutsFor(j, v)
        BY <1>5 DEF InCharge
    <2>2. m # n /\ m \in 1..(n - 1) /\ n \in (m + 1)..n
        BY <1>1, <1>5, <2>1
    <2>3. \A j \in (m + 1)..(n - 1) : j \in (m + 1)..n
        BY <1>1
    <2>. QED
        BY <2>1, <2>2, <2>3 DEF InCharge
<1>6. ASSUME ~PutsFor(n, v), InCharge(n - 1, v)
      PROVE  InCharge(n, v)
    <2>1. PICK m \in 1..(n - 1) : /\ Puts(m) /\ DeploymentSeeds[m].target = v
                                  /\ \A j \in (m + 1)..(n - 1) : ~PutsFor(j, v)
        BY <1>6 DEF InCharge
    <2>2. m \in 1..n /\ \A j \in (m + 1)..n : j = n \/ j \in (m + 1)..(n - 1)
        BY <1>1
    <2>. QED
        BY <1>6, <2>1, <2>2 DEF InCharge
<1>. QED
    BY <1>3, <1>4, <1>5, <1>6

LEMMA AfterDeprecation ==
    ASSUME NEW n \in DOMAIN DeploymentSeeds, ~Puts(n), NEW v \in Versions
    PROVE  /\ InCharge(n, v) <=> InCharge(n - 1, v)
           /\ Retired(n, v) <=> v = DeploymentSeeds[n].target \/ Retired(n - 1, v)
<1>1. n \in Nat /\ 1 <= n /\ n - 1 \in Nat
    BY Lists
<1>2. Retires(n, v) <=> v = DeploymentSeeds[n].target
    BY Seeds DEF Puts, Retires, Actions
<1>3. 1..n = 1..(n - 1) \cup {n}
    BY <1>1
<1>4. Retired(n, v) <=> v = DeploymentSeeds[n].target \/ Retired(n - 1, v)
    BY <1>2, <1>3 DEF Retired
<1>5. ~PutsFor(n, v)
    BY DEF PutsFor
<1>6. \A m \in 1..(n - 1) : (m + 1)..n = (m + 1)..(n - 1) \cup {n}
    BY <1>1
<1>7. InCharge(n, v) <=> InCharge(n - 1, v)
    BY <1>3, <1>5, <1>6 DEF InCharge
<1>. QED
    BY <1>4, <1>7

\* Of one agent one version at most is in charge.
LEMMA InChargeAlone ==
    ASSUME NEW k \in Nat, NEW v, NEW w, SameAgent(v, w), InCharge(k, v), InCharge(k, w)
    PROVE  v = w
<1>1. PICK m \in 1..k : /\ Puts(m) /\ DeploymentSeeds[m].target = v
                        /\ \A j \in (m + 1)..k : ~PutsFor(j, v)
    BY DEF InCharge
<1>2. PICK l \in 1..k : /\ Puts(l) /\ DeploymentSeeds[l].target = w
                        /\ \A j \in (l + 1)..k : ~PutsFor(j, w)
    BY DEF InCharge
<1>3. PutsFor(m, w) /\ PutsFor(l, v)
    BY <1>1, <1>2 DEF PutsFor, SameAgent
<1>4. m \notin (l + 1)..k /\ l \notin (m + 1)..k
    BY <1>1, <1>2, <1>3
<1>5. m = l
    BY <1>4
<1>. QED
    BY <1>1, <1>2, <1>5

\* The version that a step of the manifest replaces is the one in charge.
LEMMA Replaced ==
    ASSUME NEW n \in DOMAIN DeploymentSeeds, Puts(n), NEW v \in Versions,
           SameAgent(v, DeploymentSeeds[n].target)
    PROVE  InCharge(n - 1, v) <=> v = DeploymentSeeds[n].source
<1> DEFINE d == DeploymentSeeds[n]
<1>1. n \in Nat /\ 1 <= n /\ n - 1 \in Nat
    BY Lists
<1>2. ReplacesLast(n)
    BY ManifestAssumption
<1>3. CASE d.source = NoVersion /\ \A m \in 1..(n - 1) : ~PutsFor(m, d.target)
    <2>1. v # d.source
        BY <1>3, ConstantsAssumption
    <2>2. ASSUME NEW m \in 1..(n - 1), Puts(m), DeploymentSeeds[m].target = v
          PROVE  FALSE
        BY <1>3, <2>2 DEF PutsFor, SameAgent
    <2>. QED
        BY <2>1, <2>2 DEF InCharge
<1>4. CASE \E m \in 1..(n - 1) :
              /\ PutsFor(m, d.target) /\ DeploymentSeeds[m].target = d.source
              /\ \A j \in (m + 1)..(n - 1) : ~PutsFor(j, d.target)
    <2>1. PICK m \in 1..(n - 1) :
              /\ PutsFor(m, d.target) /\ DeploymentSeeds[m].target = d.source
              /\ \A j \in (m + 1)..(n - 1) : ~PutsFor(j, d.target)
        BY <1>4
    <2>2. SameAgent(d.source, d.target) /\ SameAgent(v, d.source) /\ Puts(m)
        BY <2>1 DEF PutsFor, SameAgent
    <2>3. \A j \in (m + 1)..(n - 1) : ~PutsFor(j, d.source)
        BY <2>1, <2>2 DEF PutsFor, SameAgent
    <2>4. InCharge(n - 1, d.source)
        BY <2>1, <2>2, <2>3 DEF InCharge
    <2>. QED
        BY <1>1, <2>2, <2>4, InChargeAlone
<1>. QED
    BY <1>2, <1>3, <1>4 DEF ReplacesLast

-----------------------------------------------------------------------------
(* A deployment step.                                                      *)

\* The script's list of deployments, and the history so far.
LEMMA Recorded ==
    ASSUME TypeOK, HistoryFollowsManifest
    PROVE  /\ Len(events) \in Nat /\ DOMAIN events = 1..Len(events)
           /\ Len(events) <= Len(DeploymentSeeds)
           /\ \A i \in 1..Len(events) :
                 /\ i \in DOMAIN DeploymentSeeds
                 /\ events[i].type = DeploymentSeeds[i].action
                 /\ Puts(i) => /\ events[i].source = DeploymentSeeds[i].source
                               /\ events[i].target = DeploymentSeeds[i].target
                 /\ ~Puts(i) => events[i].target = NoVersion
<1>1. Len(events) \in Nat /\ DOMAIN events = 1..Len(events)
    BY DEF TypeOK
<1>2. Len(Planned) = Len(DeploymentSeeds)
    BY Lists DEF Planned
<1>3. Len(events) <= Len(DeploymentSeeds)
    BY <1>2 DEF HistoryFollowsManifest
<1>4. ASSUME NEW i \in 1..Len(events)
      PROVE  /\ i \in DOMAIN DeploymentSeeds
             /\ events[i] = Planned[i]
    BY <1>1, <1>3, Lists DEF HistoryFollowsManifest
<1>5. ASSUME NEW i \in DOMAIN DeploymentSeeds
      PROVE  /\ Planned[i].type = DeploymentSeeds[i].action
             /\ Puts(i) => /\ Planned[i].source = DeploymentSeeds[i].source
                           /\ Planned[i].target = DeploymentSeeds[i].target
             /\ ~Puts(i) => Planned[i].target = NoVersion
    BY Seeds DEF Planned, Puts, Actions
<1>7. ASSUME NEW i \in 1..Len(events)
      PROVE  /\ i \in DOMAIN DeploymentSeeds
             /\ events[i].type = DeploymentSeeds[i].action
             /\ Puts(i) => /\ events[i].source = DeploymentSeeds[i].source
                           /\ events[i].target = DeploymentSeeds[i].target
             /\ ~Puts(i) => events[i].target = NoVersion
    BY <1>4, <1>5
<1>. QED
    BY <1>1, <1>3, <1>7

\* What the script finds done has been done: neither the history nor the
\* lifecycles that it has fetched take one step for another.
LEMMA FoundIsDone ==
    ASSUME TypeOK, HistoryFollowsManifest, LifecyclesOK,
           NEW n \in DOMAIN DeploymentSeeds,
           Exists(DeploymentSeeds[n]) \/ SeenDone(DeploymentSeeds[n])
    PROVE  n <= Len(events)
<1> DEFINE d == DeploymentSeeds[n]
<1>1. /\ n \in Nat /\ d.target \in Versions
      /\ d \in [action : Actions, source : Versions \cup {NoVersion}, target : Versions]
    BY Lists, Seeds
<1> SUFFICES ASSUME Len(events) < n
             PROVE  FALSE
    BY <1>1, Recorded
<1>2. \A m \in 1..Len(events) : m \in 1..(n - 1) /\ m \in DOMAIN DeploymentSeeds
    BY <1>1, Recorded
<1>3. \A m \in 1..Len(events) : ~Repeats(n, m)
    BY <1>2, ManifestAssumption
<1>4. ASSUME NEW i \in DOMAIN events, events[i].type = d.action, events[i].target = d.target,
             d.action = "ROLLBACK" => events[i].source = d.source
      PROVE  FALSE
    <2>1. i \in 1..Len(events) /\ Puts(i)
        BY <1>1, <1>4, Recorded, ConstantsAssumption
    <2>2. /\ DeploymentSeeds[i].action = d.action /\ DeploymentSeeds[i].target = d.target
          /\ d.action = "ROLLBACK" => DeploymentSeeds[i].source = d.source
        BY <1>4, <2>1, Recorded
    <2>3. Repeats(n, i)
        BY <2>1, <2>2 DEF Repeats, Puts
    <2>. QED
        BY <1>3, <2>1, <2>3
<1>5. ASSUME d.action = "PROMOTE", script.lifecycles[d.target] = "PRODUCTION"
      PROVE  FALSE
    <2>1. PICK m \in 1..Len(events) : Puts(m) /\ DeploymentSeeds[m].target = d.target
        BY <1>1, <1>5 DEF LifecyclesOK
    <2>2. Repeats(n, m)
        BY <1>5, <2>1 DEF Repeats
    <2>. QED
        BY <1>3, <2>2
<1>6. ASSUME d.action = "DEPRECATE", script.lifecycles[d.target] = "DEPRECATED"
      PROVE  FALSE
    <2>1. PICK m \in 1..Len(events) : Retires(m, d.target)
        BY <1>1, <1>6 DEF LifecyclesOK, Retired
    <2>2. Repeats(n, m)
        BY <1>6, <2>1 DEF Repeats, Retires
    <2>. QED
        BY <1>3, <2>2
<1>. QED
    BY <1>4, <1>5, <1>6 DEF Exists, SeenDone

\* What has been done is found, or else refused.
LEMMA DoneIsFound ==
    ASSUME TypeOK, HistoryFollowsManifest, LifecyclesOK,
           NEW n \in DOMAIN DeploymentSeeds, n <= Len(events)
    PROVE  Exists(DeploymentSeeds[n]) \/ ~Accepted(DeploymentSeeds[n])
<1> DEFINE d == DeploymentSeeds[n]
<1>1. n \in 1..Len(events) /\ n \in DOMAIN events /\ d.target \in Versions /\ d.action \in Actions
    BY Lists, Seeds, Recorded
<1>2. CASE Puts(n)
    BY <1>1, <1>2, Recorded DEF Exists
<1>3. CASE ~Puts(n)
    <2>1. d.action = "DEPRECATE"
        BY <1>1, <1>3 DEF Puts, Actions
    <2>2. Retired(Len(events), d.target)
        BY <1>1, <2>1 DEF Retired, Retires
    <2>3. versions[d.target] = "DEPRECATED"
        BY <1>1, <2>2 DEF LifecyclesOK
    <2>. QED
        BY <2>1, <2>3 DEF Accepted
<1>. QED
    BY <1>2, <1>3

\* A step that is due replaces the version that the manifest says.
LEMMA CurrentIsSource ==
    ASSUME TypeOK, HistoryFollowsManifest, LifecyclesOK,
           NEW n \in DOMAIN DeploymentSeeds, n = Len(events) + 1, Puts(n)
    PROVE  Current(DeploymentSeeds[n]) = DeploymentSeeds[n].source
<1> DEFINE d == DeploymentSeeds[n]
<1>1. d.target \in Versions /\ d.source \in Versions \cup {NoVersion}
    BY Seeds
<1>2. n - 1 = Len(events)
    BY Recorded
<1>3. ASSUME NEW v \in Versions, SameAgent(v, d.target)
      PROVE  versions[v] = "PRODUCTION" <=> v = d.source
    BY <1>2, <1>3, Replaced DEF LifecyclesOK
<1>4. CASE d.source = NoVersion
    <2>1. InProduction(d) = {}
        BY <1>3, <1>4, ConstantsAssumption DEF InProduction
    <2>. QED
        BY <1>4, <2>1 DEF Current
<1>5. CASE d.source # NoVersion
    <2>1. PICK m \in 1..(n - 1) :
              /\ PutsFor(m, d.target) /\ DeploymentSeeds[m].target = d.source
              /\ \A j \in (m + 1)..(n - 1) : ~PutsFor(j, d.target)
        BY <1>5, ManifestAssumption DEF ReplacesLast
    <2>2. d.source \in Versions /\ SameAgent(d.source, d.target)
        BY <1>1, <1>5, <2>1 DEF PutsFor
    <2>3. InProduction(d) = {d.source}
        BY <1>3, <2>2 DEF InProduction
    <2>. QED
        BY <2>3 DEF Current
<1>. QED
    BY <1>4, <1>5

\* A rollback that is due restores the version that the manifest says.
LEMMA RestoredIsTarget ==
    ASSUME TypeOK, HistoryFollowsManifest, LifecyclesOK,
           NEW n \in DOMAIN DeploymentSeeds, n = Len(events) + 1,
           DeploymentSeeds[n].action = "ROLLBACK"
    PROVE  /\ events[Latest(Restorable(DeploymentSeeds[n]))].target = DeploymentSeeds[n].target
           /\ versions[DeploymentSeeds[n].target] # "DEPRECATED"
           /\ Restorable(DeploymentSeeds[n]) # {}
<1> DEFINE d == DeploymentSeeds[n]
           I == Restorable(d)
<1>1. /\ d.target \in Versions /\ Len(events) \in Nat /\ n - 1 = Len(events)
      /\ DOMAIN events = 1..Len(events)
    BY Seeds, Recorded
<1>2. Current(d) = d.source
    BY CurrentIsSource DEF Puts
<1>3. PICK m \in 1..Len(events) :
          /\ DeploymentSeeds[m].action = "PROMOTE" /\ DeploymentSeeds[m].target = d.target
          /\ \A j \in (m + 1)..Len(events) :
                DeploymentSeeds[j].action = "PROMOTE" /\ PutsFor(j, d.target) =>
                    \/ DeploymentSeeds[j].target = d.source
                    \/ Retired(Len(events), DeploymentSeeds[j].target)
    BY <1>1, ManifestAssumption DEF RestoresNewest, Retired
<1>4. d.target # d.source /\ ~Retired(Len(events), d.target)
    BY <1>1, ManifestAssumption DEF RestoresNewest, Retired
<1>5. versions[d.target] # "DEPRECATED"
    BY <1>1, <1>4 DEF LifecyclesOK
<1>6. events[m].type = "PROMOTE" /\ events[m].target = d.target
    BY <1>3, Recorded DEF Puts
<1>7. m \in I
    BY <1>1, <1>2, <1>4, <1>5, <1>6 DEF Restorable, SameAgent
<1>8. ASSUME NEW j \in I, m < j
      PROVE  FALSE
    <2>1. /\ j \in (m + 1)..Len(events) /\ j \in 1..Len(events)
          /\ events[j].type = "PROMOTE"
          /\ SameAgent(events[j].target, d.target) /\ events[j].target # d.source
          /\ versions[events[j].target] # "DEPRECATED"
        BY <1>1, <1>2, <1>8 DEF Restorable
    <2>2. /\ DeploymentSeeds[j].action = "PROMOTE" /\ Puts(j) /\ j \in DOMAIN DeploymentSeeds
          /\ DeploymentSeeds[j].target = events[j].target
        BY <2>1, Recorded DEF Puts
    <2>3. Retired(Len(events), DeploymentSeeds[j].target)
        BY <1>3, <2>1, <2>2 DEF PutsFor
    <2>. QED
        BY <2>1, <2>2, <2>3, Seeds DEF LifecyclesOK
<1>9. I \subseteq Nat
    BY <1>1 DEF Restorable
<1>10. \A j \in I : j <= m
    BY <1>8, <1>9
<1>11. Latest(I) = m
    BY <1>7, <1>9, <1>10 DEF Latest
<1>. QED
    BY <1>5, <1>6, <1>7, <1>11

\* The step n of the manifest is carried out as the manifest says.
Taken(n) ==
    LET d == DeploymentSeeds[n]
    IN  /\ n = Len(events) + 1
        /\ events' = Append(events, Planned[n])
        /\ Puts(n) => /\ versions' = Deployed(d.target, d.source)
                      /\ versions[d.target] # "DEPRECATED"
        /\ ~Puts(n) => /\ versions' = [versions EXCEPT ![d.target] = "DEPRECATED"]
                       /\ versions[d.target] \in {"DRAFT", "APPROVED"}

LEMMA AppliedIsTaken ==
    ASSUME TypeOK, EvaluationsOK, HistoryFollowsManifest, LifecyclesOK,
           NEW n \in DOMAIN DeploymentSeeds, n = Len(events) + 1,
           Accepted(DeploymentSeeds[n]), Apply(DeploymentSeeds[n])
    PROVE  Taken(n)
<1> DEFINE d == DeploymentSeeds[n]
<1>1. d.action \in Actions /\ (Puts(n) <=> d.action # "DEPRECATE")
    BY Seeds DEF Puts, Actions
<1>2. Planned[n] = IF d.action = "DEPRECATE"
                   THEN [type |-> d.action, source |-> d.target, target |-> NoVersion]
                   ELSE [type |-> d.action, source |-> d.source, target |-> d.target]
    BY DEF Planned
<1>3. CASE d.action = "PROMOTE"
    <2>1. Current(d) = d.source
        BY <1>1, <1>3, CurrentIsSource
    <2>2. versions' = Deployed(d.target, d.source) /\ events' = Append(events, Planned[n])
        BY <1>2, <1>3, <2>1 DEF Apply
    <2>3. versions[d.target] # "DEPRECATED"
        BY <1>3 DEF Accepted
    <2>. QED
        BY <1>1, <1>3, <2>2, <2>3 DEF Taken
<1>4. CASE d.action = "ROLLBACK"
    <2>1. Current(d) = d.source
        BY <1>1, <1>4, CurrentIsSource
    <2>2. /\ events[Latest(Restorable(d))].target = d.target
          /\ versions[d.target] # "DEPRECATED"
        BY <1>4, RestoredIsTarget
    <2>3. versions' = Deployed(d.target, d.source) /\ events' = Append(events, Planned[n])
        BY <1>2, <1>4, <2>1, <2>2 DEF Apply
    <2>. QED
        BY <1>1, <1>4, <2>2, <2>3 DEF Taken
<1>5. CASE d.action = "DEPRECATE"
    <2>1. /\ versions' = [versions EXCEPT ![d.target] = "DEPRECATED"]
          /\ events' = Append(events, Planned[n])
        BY <1>2, <1>5 DEF Apply
    <2>2. versions[d.target] \in {"DRAFT", "APPROVED"}
        BY <1>5 DEF Accepted
    <2>. QED
        BY <1>1, <1>5, <2>1, <2>2 DEF Taken
<1>. QED
    BY <1>1, <1>3, <1>4, <1>5 DEF Actions

\* A deployment step of the script goes past what is done, gives up, or does
\* what is due.
LEMMA DeploymentEffect ==
    ASSUME TypeOK, ScriptOK, EvaluationsOK, HistoryFollowsManifest, LifecyclesOK, EventsDone,
           EnsureDeployment
    PROVE  /\ script.pc = "deployments" /\ script.next \in DOMAIN DeploymentSeeds
           /\ UNCHANGED <<runs, evaluations, disturbances>>
           /\ \/ UNCHANGED <<versions, events>> /\ NextDeployment /\ script.next <= Len(events)
              \/ UNCHANGED <<versions, events>> /\ GiveUp
              \/ Taken(script.next) /\ NextDeployment
<1> DEFINE n == script.next
           d == DeploymentSeeds[n]
           there == Exists(d) \/ SeenDone(d)
<1>1. /\ script.pc = "deployments"
      /\ UNCHANGED <<runs, evaluations, disturbances>>
      /\ \/ there /\ UNCHANGED <<versions, events>> /\ NextDeployment
         \/ ~there /\ Accepted(d) /\ Apply(d) /\ NextDeployment
         \/ ~there /\ ~Accepted(d) /\ UNCHANGED <<versions, events>> /\ GiveUp
    BY DEF EnsureDeployment
<1>2. n \in DOMAIN DeploymentSeeds /\ n <= Len(events) + 1
    BY <1>1, Lists DEF TypeOK, Script, ScriptOK, EventsDone
<1>3. n \in Nat /\ Len(events) \in Nat
    BY <1>2, Lists, Recorded
<1>4. there => n <= Len(events)
    BY <1>2, FoundIsDone
<1>5. ASSUME ~there, Accepted(d), Apply(d)
      PROVE  Taken(n)
    <2>1. ~(n <= Len(events))
        BY <1>2, <1>5, DoneIsFound
    <2>2. n = Len(events) + 1
        BY <1>2, <1>3, <2>1
    <2>. QED
        BY <1>2, <1>5, <2>2, AppliedIsTaken
<1>. QED
    BY <1>1, <1>2, <1>4, <1>5

\* What a step that is taken leaves.
LEMMA TakenLeaves ==
    ASSUME TypeOK, HistoryFollowsManifest, LifecyclesOK,
           NEW n \in DOMAIN DeploymentSeeds, Taken(n)
    PROVE  /\ events' \in Seq(Event) /\ Len(events') = n /\ n = Len(events) + 1
           /\ \A i \in DOMAIN events' : events'[i] = Planned[i]
           /\ versions' \in [Versions -> Lifecycle]
           /\ \A v \in Versions :
                 /\ versions'[v] = "PRODUCTION" <=> InCharge(n, v)
                 /\ versions'[v] = "DEPRECATED" <=> Retired(n, v)
                 /\ versions'[v] = "ABSENT" => versions[v] = "ABSENT"
<1> DEFINE d == DeploymentSeeds[n]
<1>1. /\ n \in Nat /\ Len(events) \in Nat /\ n = Len(events) + 1 /\ n - 1 = Len(events)
      /\ DOMAIN events = 1..Len(events)
    BY Lists, Recorded DEF Taken
<1>2. d \in [action : Actions, source : Versions \cup {NoVersion}, target : Versions]
    BY Seeds
<1>3. Planned[n] \in Event
    BY <1>2 DEF Planned, Event
<1>4. events' = Append(events, Planned[n]) /\ events \in Seq(Event)
    BY DEF Taken, TypeOK
<1>5. /\ events' \in Seq(Event) /\ Len(events') = n
      /\ \A i \in DOMAIN events' :
            \/ i = n /\ events'[i] = Planned[n]
            \/ i \in DOMAIN events /\ events'[i] = events[i]
    BY <1>1, <1>3, <1>4
<1>6. \A i \in DOMAIN events' : events'[i] = Planned[i]
    BY <1>5 DEF HistoryFollowsManifest
<1>7. CASE Puts(n)
    <2>1. versions' = Deployed(d.target, d.source) /\ versions[d.target] # "DEPRECATED"
        BY <1>7 DEF Taken
    <2>2. versions' \in [Versions -> Lifecycle]
        BY <2>1 DEF Deployed, TypeOK, Lifecycle
    <2>3. ASSUME NEW v \in Versions
          PROVE  /\ versions'[v] = "PRODUCTION" <=> InCharge(n, v)
                 /\ versions'[v] = "DEPRECATED" <=> Retired(n, v)
                 /\ versions'[v] = "ABSENT" => versions[v] = "ABSENT"
        <3>1. /\ InCharge(n, v) <=> v = d.target \/ (~PutsFor(n, v) /\ InCharge(n - 1, v))
              /\ Retired(n, v) <=> Retired(n - 1, v)
            BY <1>7, AfterPut
        <3>2. /\ versions[v] = "PRODUCTION" <=> InCharge(n - 1, v)
              /\ versions[v] = "DEPRECATED" <=> Retired(n - 1, v)
            BY <1>1 DEF LifecyclesOK
        <3>3. versions'[v] = IF v = d.target THEN "PRODUCTION"
                             ELSE IF v = d.source THEN "APPROVED" ELSE versions[v]
            BY <2>1 DEF Deployed
        <3>4. PutsFor(n, v) => (InCharge(n - 1, v) <=> v = d.source)
            BY <1>7, Replaced DEF PutsFor, SameAgent
        <3>5. v = d.source => InCharge(n - 1, v) /\ PutsFor(n, v)
            <4> SUFFICES ASSUME v = d.source
                         PROVE  InCharge(n - 1, v) /\ PutsFor(n, v)
                OBVIOUS
            <4>1. v # NoVersion
                BY ConstantsAssumption
            <4>2. \E m \in 1..(n - 1) : PutsFor(m, d.target) /\ DeploymentSeeds[m].target = v
                BY <1>7, <4>1, ManifestAssumption DEF ReplacesLast
            <4>3. SameAgent(v, d.target)
                BY <4>2 DEF PutsFor
            <4>. QED
                BY <1>7, <4>3, Replaced DEF PutsFor, SameAgent
        <3>. QED
            BY <2>1, <3>1, <3>2, <3>3, <3>4, <3>5
    <2>. QED
        BY <1>1, <1>5, <1>6, <2>2, <2>3
<1>8. CASE ~Puts(n)
    <2>1. /\ versions' = [versions EXCEPT ![d.target] = "DEPRECATED"]
          /\ versions[d.target] \in {"DRAFT", "APPROVED"}
        BY <1>8 DEF Taken
    <2>2. versions' \in [Versions -> Lifecycle]
        BY <2>1 DEF TypeOK, Lifecycle
    <2>3. ASSUME NEW v \in Versions
          PROVE  /\ versions'[v] = "PRODUCTION" <=> InCharge(n, v)
                 /\ versions'[v] = "DEPRECATED" <=> Retired(n, v)
                 /\ versions'[v] = "ABSENT" => versions[v] = "ABSENT"
        <3>1. /\ InCharge(n, v) <=> InCharge(n - 1, v)
              /\ Retired(n, v) <=> v = d.target \/ Retired(n - 1, v)
            BY <1>8, AfterDeprecation
        <3>2. /\ versions[v] = "PRODUCTION" <=> InCharge(n - 1, v)
              /\ versions[v] = "DEPRECATED" <=> Retired(n - 1, v)
            BY <1>1 DEF LifecyclesOK
        <3>3. versions'[v] = IF v = d.target THEN "DEPRECATED" ELSE versions[v]
            BY <2>1 DEF TypeOK
        <3>. QED
            BY <2>1, <3>1, <3>2, <3>3
    <2>. QED
        BY <1>1, <1>5, <1>6, <2>2, <2>3
<1>. QED
    BY <1>7, <1>8

-----------------------------------------------------------------------------
(* Where the script goes, and the types.                                   *)

Pcs ==
    {"idle", "versions", "normalize", "runs", "approval", "review", "evaluations",
     "deployments", "finish", "done"}

LEMMA Goes ==
    ASSUME TypeOK, NEW l \in Pcs, NEW n \in Nat, Goto(l, n)
    PROVE  /\ script' \in Script
           /\ script'.pc = l /\ script'.next = n /\ script'.lifecycles = script.lifecycles
BY DEF TypeOK, Script, Goto, Pcs

LEMMA Advances ==
    ASSUME TypeOK, NEW S, NEW list \in Seq(S), NEW l \in Pcs, NEW after \in Pcs,
           NextOf(list, l, after)
    PROVE  /\ script' \in Script
           /\ script'.lifecycles = script.lifecycles
           /\ \/ script.next < Len(list) /\ script'.pc = l /\ script'.next = script.next + 1
              \/ ~(script.next < Len(list)) /\ script'.pc = after /\ script'.next = 1
<1>1. script.next \in Nat /\ script.next + 1 \in Nat
    BY DEF TypeOK, Script
<1>2. CASE script.next < Len(list)
    BY <1>1, <1>2, Goes DEF NextOf
<1>3. CASE ~(script.next < Len(list))
    BY <1>1, <1>3, Goes DEF NextOf
<1>. QED
    BY <1>2, <1>3

\* The same for each list of the script.
LEMMA AdvancesRuns ==
    ASSUME TypeOK, NextRun
    PROVE  /\ script' \in Script
           /\ script'.lifecycles = script.lifecycles
           /\ \/ script.next < Len(RunSeeds) /\ script'.pc = "runs" /\ script'.next = script.next + 1
              \/ ~(script.next < Len(RunSeeds)) /\ script'.pc = "evaluations" /\ script'.next = 1
BY Advances, ConstantsAssumption DEF NextRun, Pcs

LEMMA AdvancesEvaluations ==
    ASSUME TypeOK, NextOf(EvaluationSeeds, "evaluations", "deployments")
    PROVE  /\ script' \in Script
           /\ script'.lifecycles = script.lifecycles
           /\ \/ /\ script.next < Len(EvaluationSeeds)
                 /\ script'.pc = "evaluations" /\ script'.next = script.next + 1
              \/ /\ ~(script.next < Len(EvaluationSeeds))
                 /\ script'.pc = "deployments" /\ script'.next = 1
BY Advances, ConstantsAssumption DEF Pcs

LEMMA AdvancesDeployments ==
    ASSUME TypeOK, NextDeployment
    PROVE  /\ script' \in Script
           /\ script'.lifecycles = script.lifecycles
           /\ \/ /\ script.next < Len(DeploymentSeeds)
                 /\ script'.pc = "deployments" /\ script'.next = script.next + 1
              \/ /\ ~(script.next < Len(DeploymentSeeds))
                 /\ script'.pc = "finish" /\ script'.next = 1
BY Advances, ConstantsAssumption DEF NextDeployment, Pcs

LEMMA GivesUp ==
    ASSUME TypeOK, GiveUp
    PROVE  /\ script' \in Script
           /\ script'.pc = "idle" /\ script'.next = 1 /\ script'.lifecycles = script.lifecycles
BY Goes DEF GiveUp, Pcs

LEMMA ReconciledType ==
    ASSUME TypeOK
    PROVE  Reconciled \in Seq(Run)
<1>1. Len(runs) \in Nat /\ DOMAIN runs = 1..Len(runs) /\ \A i \in DOMAIN runs : runs[i] \in Run
    BY DEF TypeOK
<1>2. ASSUME NEW i \in DOMAIN runs, NEW n \in DOMAIN RunSeeds
      PROVE  [runs[i] EXCEPT !.key = RunSeeds[n].key] \in Run
    BY <1>1, Seeds DEF Run
<1>3. ASSUME NEW i \in DOMAIN runs
      PROVE  Reconciled[i] \in Run
    <2>1. CASE \E n \in DOMAIN RunSeeds : Matches(i, n)
        BY <1>2, <2>1 DEF Reconciled
    <2>2. CASE ~\E n \in DOMAIN RunSeeds : Matches(i, n)
        BY <1>1, <2>2 DEF Reconciled
    <2>. QED
        BY <2>1, <2>2
<1>4. DOMAIN Reconciled = 1..Len(runs) /\ Reconciled = [i \in 1..Len(runs) |-> Reconciled[i]]
    BY <1>1 DEF Reconciled
<1>. QED
    BY <1>1, <1>3, <1>4

\* A row is added at the end.
LEMMA Appended ==
    ASSUME NEW S, NEW s \in Seq(S), NEW e \in S
    PROVE  /\ Append(s, e) \in Seq(S)
           /\ Len(s) + 1 \in DOMAIN Append(s, e) /\ Append(s, e)[Len(s) + 1] = e
           /\ DOMAIN s = 1..Len(s) /\ Len(s) \in Nat /\ DOMAIN s \subseteq DOMAIN Append(s, e)
           /\ \A i \in DOMAIN s : Append(s, e)[i] = s[i]
           /\ \A i \in DOMAIN Append(s, e) : i \in DOMAIN s \/ i = Len(s) + 1
OBVIOUS

\* The runs have one with the key of the seed, and only one.
LEMMA RunOfSeed ==
    ASSUME TypeOK, Seeded, NEW key, HasRun(key)
    PROVE  /\ RunOf(key) \in DOMAIN runs /\ runs[RunOf(key)].key = key
           /\ \A j \in DOMAIN runs : runs[j].key = key => j = RunOf(key)
<1>1. PICK i \in DOMAIN runs : runs[i].key = key
    BY DEF HasRun
<1>2. \A j \in DOMAIN runs : runs[j].key = key => j = i
    BY <1>1 DEF Seeded
<1>3. i \in Nat
    BY DEF TypeOK
<1>4. RunOf(key) = i
    BY <1>1, <1>2, <1>3 DEF RunOf
<1>. QED
    BY <1>1, <1>2, <1>4

\* A request, or an evaluation, is changed in place.
LEMMA Updated ==
    ASSUME TypeOK, NEW i \in DOMAIN runs, NEW a \in {"none", "PENDING"} \cup Decisions
    PROVE  LET runs1 == [runs EXCEPT ![i].approval = a]
           IN  /\ runs1 \in Seq(Run) /\ DOMAIN runs1 = DOMAIN runs
               /\ \A j \in DOMAIN runs :
                     /\ runs1[j].key = runs[j].key /\ runs1[j].input = runs[j].input
                     /\ runs1[j].approval = IF j = i THEN a ELSE runs[j].approval
<1> DEFINE run == [runs[i] EXCEPT !.approval = a]
<1>1. /\ Len(runs) \in Nat /\ DOMAIN runs = 1..Len(runs)
      /\ \A j \in DOMAIN runs : runs[j] \in Run
    BY DEF TypeOK
<1>2. run \in Run /\ run.key = runs[i].key /\ run.input = runs[i].input /\ run.approval = a
    BY <1>1 DEF Run
<1>3. [runs EXCEPT ![i].approval = a] = [runs EXCEPT ![i] = run]
    OBVIOUS
<1> HIDE DEF run
<1>4. [runs EXCEPT ![i] = run] \in Seq(Run)
    BY <1>2 DEF TypeOK
<1>5. \A j \in DOMAIN runs : [runs EXCEPT ![i] = run][j] = IF j = i THEN run ELSE runs[j]
    BY <1>1
<1>6. DOMAIN [runs EXCEPT ![i] = run] = DOMAIN runs
    OBVIOUS
<1>. QED
    BY <1>2, <1>3, <1>4, <1>5, <1>6

LEMMA EvaluatedLate ==
    ASSUME TypeOK, NEW i \in DOMAIN evaluations, EvaluateLate(i)
    PROVE  /\ evaluations' \in Seq(Evaluation) /\ DOMAIN evaluations' = DOMAIN evaluations
           /\ \A j \in DOMAIN evaluations : evaluations'[j].version = evaluations[j].version
<1>1. /\ Len(evaluations) \in Nat /\ DOMAIN evaluations = 1..Len(evaluations)
      /\ \A j \in DOMAIN evaluations : evaluations[j] \in Evaluation
    BY DEF TypeOK
<1>2. PICK e \in Evaluation : e.version = evaluations[i].version /\ evaluations' = [evaluations EXCEPT ![i] = e]
    <2>1. CASE ResultLate(i)
        <3>1. /\ [evaluations[i] EXCEPT !.results = TRUE] \in Evaluation
              /\ [evaluations[i] EXCEPT !.results = TRUE].version = evaluations[i].version
            BY <1>1 DEF Evaluation
        <3>. QED
            BY <2>1, <3>1 DEF ResultLate
    <2>2. CASE PassLate(i)
        <3>1. /\ [evaluations[i] EXCEPT !.status = "PASSED"] \in Evaluation
              /\ [evaluations[i] EXCEPT !.status = "PASSED"].version = evaluations[i].version
            BY <1>1 DEF Evaluation
        <3>. QED
            BY <2>2, <3>1 DEF PassLate
    <2>3. CASE FailLate(i)
        <3>1. /\ [evaluations[i] EXCEPT !.status = "FAILED", !.open = FALSE] \in Evaluation
              /\ [evaluations[i] EXCEPT !.status = "FAILED", !.open = FALSE].version = evaluations[i].version
            BY <1>1 DEF Evaluation
        <3>. QED
            BY <2>3, <3>1 DEF FailLate
    <2>. QED
        BY <2>1, <2>2, <2>3 DEF EvaluateLate
<1>3. evaluations' \in Seq(Evaluation)
    BY <1>2 DEF TypeOK
<1>4. \A j \in DOMAIN evaluations : evaluations'[j] = IF j = i THEN e ELSE evaluations[j]
    BY <1>1, <1>2
<1>5. DOMAIN evaluations' = DOMAIN evaluations
    BY <1>2
<1>. QED
    BY <1>2, <1>3, <1>4, <1>5

LEMMA MendedType ==
    ASSUME TypeOK
    PROVE  /\ Mended \in Seq(Evaluation)
           /\ DOMAIN Mended = DOMAIN evaluations
           /\ \A i \in DOMAIN evaluations :
                 /\ Mended[i].version = evaluations[i].version
                 /\ Mended[i] = IF evaluations[i].results
                                THEN [evaluations[i] EXCEPT !.status = "PASSED"] ELSE evaluations[i]
<1>1. /\ Len(evaluations) \in Nat /\ DOMAIN evaluations = 1..Len(evaluations)
      /\ \A i \in DOMAIN evaluations : evaluations[i] \in Evaluation
    BY DEF TypeOK
<1>2. ASSUME NEW i \in DOMAIN evaluations
      PROVE  /\ Mended[i] \in Evaluation
             /\ Mended[i].version = evaluations[i].version
             /\ Mended[i] = IF evaluations[i].results
                            THEN [evaluations[i] EXCEPT !.status = "PASSED"] ELSE evaluations[i]
    BY <1>1 DEF Mended, Evaluation
<1>3. Mended = [i \in 1..Len(evaluations) |-> Mended[i]] /\ DOMAIN Mended = 1..Len(evaluations)
    BY <1>1 DEF Mended
<1>. QED
    BY <1>1, <1>2, <1>3

\* The seed at which the script stands.
LEMMA Positions ==
    ASSUME TypeOK, ScriptOK
    PROVE  /\ script \in Script /\ script.next \in Nat /\ 1 <= script.next
           /\ script.pc = "versions" => script.next \in DOMAIN VersionSeeds
           /\ script.pc \in {"runs", "approval", "review"} => script.next \in DOMAIN RunSeeds
           /\ script.pc = "evaluations" => script.next \in DOMAIN EvaluationSeeds
           /\ script.pc = "deployments" => script.next \in DOMAIN DeploymentSeeds
BY Lists DEF TypeOK, Script, ScriptOK

\* A version is ensured.
LEMMA EnsuredVersion ==
    ASSUME TypeOK, ScriptOK, EnsureVersion
    PROVE  LET v == VersionSeeds[script.next]
           IN  /\ script.pc = "versions" /\ script.next \in DOMAIN VersionSeeds /\ v \in Versions
               /\ versions' = [versions EXCEPT ![v] = versions'[v]]
               /\ versions'[v] = IF versions[v] = "ABSENT" THEN "DRAFT" ELSE versions[v]
               /\ versions' \in [Versions -> Lifecycle]
               /\ script' \in Script
               /\ script'.lifecycles = [script.lifecycles EXCEPT ![v] = versions'[v]]
               /\ \/ /\ script.next < Len(VersionSeeds)
                     /\ script'.pc = "versions" /\ script'.next = script.next + 1
                  \/ /\ ~(script.next < Len(VersionSeeds))
                     /\ script'.pc = "normalize" /\ script'.next = 1
<1> DEFINE v == VersionSeeds[script.next]
<1>1. /\ script.pc = "versions" /\ script.next \in DOMAIN VersionSeeds /\ v \in Versions
      /\ script \in Script /\ script.next + 1 \in Nat
    BY Positions, Seeds DEF EnsureVersion
<1>2. versions' = IF versions[v] = "ABSENT" THEN [versions EXCEPT ![v] = "DRAFT"] ELSE versions
    BY DEF EnsureVersion
<1>3. /\ versions' = [versions EXCEPT ![v] = versions'[v]]
      /\ versions'[v] = IF versions[v] = "ABSENT" THEN "DRAFT" ELSE versions[v]
      /\ versions' \in [Versions -> Lifecycle]
    BY <1>1, <1>2 DEF TypeOK, Lifecycle
<1>4. script' = [script EXCEPT
                    !.lifecycles[v] = versions'[v],
                    !.pc = IF script.next < Len(VersionSeeds) THEN "versions" ELSE "normalize",
                    !.next = IF script.next < Len(VersionSeeds) THEN script.next + 1 ELSE 1]
    BY DEF EnsureVersion
<1>5. versions'[v] \in Lifecycle
    BY <1>1, <1>3
<1>6. script.lifecycles \in [Versions -> Lifecycle]
    BY <1>1 DEF Script
<1>7. [script.lifecycles EXCEPT ![v] = versions'[v]] \in [Versions -> Lifecycle]
    BY <1>1, <1>5, <1>6
<1>8. /\ script'.lifecycles = [script.lifecycles EXCEPT ![v] = versions'[v]]
      /\ script'.pc = (IF script.next < Len(VersionSeeds) THEN "versions" ELSE "normalize")
      /\ script'.next = (IF script.next < Len(VersionSeeds) THEN script.next + 1 ELSE 1)
      /\ script' \in Script
    BY <1>1, <1>4, <1>7 DEF Script
<1>. QED
    BY <1>1, <1>3, <1>8

\* The request that the script decides is that of the seed.
LEMMA Reviewed ==
    ASSUME TypeOK, ScriptOK, RunsOK, RunsDone, Review
    PROVE  /\ script.pc = "review" /\ script.next \in DOMAIN RunSeeds /\ Seeded
           /\ RunSeeds[script.next].review \in Decisions
           /\ \E i \in DOMAIN runs :
                 /\ runs[i].key = RunSeeds[script.next].key
                 /\ \/ /\ runs[i].approval = "PENDING" /\ NextRun
                       /\ runs' = [runs EXCEPT ![i].approval = RunSeeds[script.next].review]
                    \/ UNCHANGED runs /\ GiveUp
<1> DEFINE s == RunSeeds[script.next]
           i == RunOf(s.key)
<1>1. script.pc = "review" /\ script.next \in DOMAIN RunSeeds /\ s.review \in Decisions
    BY Positions DEF Review, ScriptOK
<1>2. Seeded /\ HasRun(s.key)
    BY <1>1 DEF RunsOK, Fresh, RunsDone
<1>3. i \in DOMAIN runs /\ runs[i].key = s.key
    BY <1>2, RunOfSeed
<1>4. \/ runs[i].approval = "PENDING" /\ NextRun /\ runs' = [runs EXCEPT ![i].approval = s.review]
      \/ UNCHANGED runs /\ GiveUp
    BY DEF Review
<1>. QED
    BY <1>1, <1>2, <1>3, <1>4

LEMMA TypeStep ==
    ASSUME TypeOK, ScriptOK, RunsOK, RunsDone, EvaluationsOK, HistoryFollowsManifest, LifecyclesOK,
           EventsDone,
           [Next]_vars
    PROVE  TypeOK'
<1> USE Positions
<1>1. CASE UNCHANGED vars
    BY <1>1 DEF TypeOK, vars, rows
<1>2. CASE Begin
    BY <1>2, Goes DEF Begin, rows, TypeOK, Pcs
<1>3. CASE EnsureVersion
    BY <1>3, EnsuredVersion DEF EnsureVersion, TypeOK
<1>4. CASE Normalize
    <2>1. ASSUME NEW l \in Pcs, NormalizeTo(l)
          PROVE  /\ runs' \in Seq(Run) /\ evaluations' \in Seq(Evaluation)
                 /\ UNCHANGED <<versions, events>> /\ script' \in Script
        BY <2>1, ReconciledType, MendedType, Goes DEF NormalizeTo
    <2>. QED
        BY <1>4, <2>1 DEF Normalize, TypeOK, Pcs
<1>5. CASE EnsureRun
    <2> DEFINE s == RunSeeds[script.next]
               run == [key |-> s.key, input |-> s.input,
                       approval |-> IF s.review = "none" THEN "none" ELSE "PENDING"]
    <2>1. s \in [key : Keys, input : Inputs, review : Reviews] /\ script.next \in Nat
        BY <1>5, Seeds DEF EnsureRun
    <2>2. run \in Run
        BY <2>1 DEF Run
    <2>3. runs' = runs \/ runs' = Append(runs, run)
        BY <1>5 DEF EnsureRun
    <2> HIDE DEF run
    <2>5. runs \in Seq(Run) /\ Append(runs, run) \in Seq(Run)
        BY <2>2, Appended DEF TypeOK
    <2>6. runs' \in Seq(Run)
        BY <2>3, <2>5
    <2>4. script' \in Script
        BY <1>5, <2>1, AdvancesRuns, Goes DEF EnsureRun, AfterFound, AfterRun, Pcs
    <2>. QED
        BY <1>5, <2>4, <2>6 DEF EnsureRun, TypeOK
<1>6. CASE FindApproval
    <2>1. script' \in Script
        BY <1>6, AdvancesRuns, GivesUp, Goes DEF FindApproval, Pcs
    <2>. QED
        BY <1>6, <2>1 DEF FindApproval, TypeOK, rows
<1>7. CASE Review
    <2>1. script' \in Script
        BY <1>7, AdvancesRuns, GivesUp DEF Review
    <2>2. PICK i \in DOMAIN runs :
              \/ runs' = [runs EXCEPT ![i].approval = RunSeeds[script.next].review]
              \/ runs' = runs
        BY <1>7, Reviewed
    <2>3. [runs EXCEPT ![i].approval = RunSeeds[script.next].review] \in Seq(Run)
        BY <1>7, Reviewed, Updated
    <2>4. runs' \in Seq(Run)
        BY <2>2, <2>3 DEF TypeOK
    <2>. QED
        BY <1>7, <2>1, <2>4 DEF Review, TypeOK
<1>8. CASE EnsureEvaluation
    <2>1. script' \in Script
        BY <1>8, AdvancesEvaluations DEF EnsureEvaluation
    <2>2. EvaluationSeeds[script.next] \in Versions
        BY <1>8, Seeds DEF EnsureEvaluation
    <2>3. [version |-> EvaluationSeeds[script.next], status |-> "PASSED", results |-> TRUE, open |-> FALSE]
              \in Evaluation
        BY <2>2 DEF Evaluation
    <2>4. evaluations' \in Seq(Evaluation)
        BY <1>8, <2>3 DEF EnsureEvaluation, TypeOK
    <2>. QED
        BY <1>8, <2>1, <2>4 DEF EnsureEvaluation, TypeOK
<1>9. CASE EnsureDeployment
    <2>1. /\ script.next \in DOMAIN DeploymentSeeds
          /\ UNCHANGED <<runs, evaluations, disturbances>>
          /\ \/ UNCHANGED <<versions, events>> /\ NextDeployment
             \/ UNCHANGED <<versions, events>> /\ GiveUp
             \/ Taken(script.next) /\ NextDeployment
        BY <1>9, DeploymentEffect
    <2>2. script' \in Script
        BY <2>1, AdvancesDeployments, GivesUp
    <2>3. versions' \in [Versions -> Lifecycle] /\ events' \in Seq(Event)
        BY <2>1, TakenLeaves DEF TypeOK
    <2>. QED
        BY <2>1, <2>2, <2>3 DEF TypeOK
<1>10. CASE Crash
    BY <1>10, GivesUp, ConstantsAssumption DEF Crash, Disturbance, rows, TypeOK
<1>11. CASE BreakRun
    <2> DEFINE s == RunSeeds[script.next]
    <2>1. s \in [key : Keys, input : Inputs, review : Reviews]
        BY <1>11, Seeds DEF BreakRun
    <2>2. [key |-> s.key, input |-> s.input, approval |-> "none"] \in Run
        BY <2>1 DEF Run
    <2>3. runs' \in Seq(Run)
        BY <1>11, <2>2 DEF BreakRun, TypeOK
    <2>. QED
        BY <1>11, <2>3, GivesUp, ConstantsAssumption DEF BreakRun, Disturbance, TypeOK
<1>12. ASSUME NEW status \in {"RUNNING", "FAILED"}, NEW results \in BOOLEAN,
              BreakEvaluation(status, results)
       PROVE  TypeOK'
    <2>1. script' \in Script
        BY <1>12, AdvancesEvaluations, GivesUp DEF BreakEvaluation
    <2>2. EvaluationSeeds[script.next] \in Versions
        BY <1>12, Seeds DEF BreakEvaluation
    <2>3. [version |-> EvaluationSeeds[script.next], status |-> status, results |-> results,
           open |-> status = "RUNNING"] \in Evaluation
        BY <2>2 DEF Evaluation
    <2>4. evaluations' \in Seq(Evaluation)
        BY <1>12, <2>3 DEF BreakEvaluation, TypeOK
    <2>. QED
        BY <1>12, <2>1, <2>4, ConstantsAssumption DEF BreakEvaluation, Disturbance, TypeOK
<1>13. ASSUME NEW i \in DOMAIN runs, AskLate(i)
       PROVE  TypeOK'
    <2>1. runs' \in Seq(Run)
        BY <1>13, Updated DEF AskLate
    <2>. QED
        BY <1>13, <2>1 DEF AskLate, TypeOK
<1>14. ASSUME NEW i \in DOMAIN runs, NEW decision \in Decisions, Decide(i, decision)
       PROVE  TypeOK'
    <2>1. runs' \in Seq(Run)
        BY <1>14, Updated DEF Decide
    <2>. QED
        BY <1>14, <2>1, ConstantsAssumption DEF Decide, Disturbance, TypeOK
<1>15. ASSUME NEW i \in DOMAIN evaluations, EvaluateLate(i)
       PROVE  TypeOK'
    <2>1. evaluations' \in Seq(Evaluation)
        BY <1>15, EvaluatedLate
    <2>. QED
        BY <1>15, <2>1 DEF EvaluateLate, TypeOK
<1>. QED
    BY <1>1, <1>2, <1>3, <1>4, <1>5, <1>6, <1>7, <1>8, <1>9, <1>10, <1>11, <1>12, <1>13, <1>14, <1>15
       DEF Next, Step, Decisions

-----------------------------------------------------------------------------
(* Keys for the runs that have none.                                       *)

LEMMA RankTells ==
    ASSUME NEW S \in SUBSET Nat, IsFiniteSet(S), NEW i \in S, NEW j \in S, Rank(S, i) = Rank(S, j)
    PROVE  i = j
<1>1. ASSUME NEW a \in S, NEW b \in S, a < b
      PROVE  Rank(S, a) # Rank(S, b)
    <2> DEFINE A == {n \in S : n <= a}
               B == {n \in S : n <= b}
    <2>1. B \in SUBSET S /\ a \in Nat /\ b \in Nat
        OBVIOUS
    <2>2. IsFiniteSet(B)
        BY <2>1, FS_Subset
    <2>3. \A n \in S : n \in Nat /\ (n <= a => n <= b)
        BY <1>1, <2>1
    <2>4. b <= b /\ ~(b <= a)
        BY <1>1, <2>1
    <2>5. A \in SUBSET B /\ b \in B /\ b \notin A
        BY <2>3, <2>4
    <2>. QED
        BY <2>2, <2>5, FS_Subset DEF Rank
<1>. QED
    BY <1>1

\* Of n numbers there is one of each rank up to n.
LEMMA RankOnto ==
    ASSUME NEW S \in SUBSET Nat, IsFiniteSet(S), NEW r \in 1..Cardinality(S)
    PROVE  \E n \in S : Rank(S, n) = r
<1> DEFINE c == Cardinality(S)
           f == [n \in S |-> Rank(S, n)]
<1>1. c \in Nat
    BY FS_CardinalityType
<1>2. ASSUME NEW n \in S
      PROVE  Rank(S, n) \in 1..c
    <2> DEFINE A == {m \in S : m <= n}
    <2>1. IsFiniteSet(A) /\ Cardinality(A) <= c /\ Cardinality(A) \in Nat
        BY FS_Subset, FS_CardinalityType
    <2>2. n \in A
        OBVIOUS
    <2>3. Cardinality(A) # 0
        BY <2>1, <2>2, FS_EmptySet
    <2>. QED
        BY <1>1, <2>1, <2>3 DEF Rank
<1>3. IsFiniteSet(1..c) /\ Cardinality(1..c) = c
    BY <1>1, FS_Interval
<1>4. f \in Injection(S, 1..c)
    BY <1>2, RankTells DEF Injection, IsInjective
<1>5. f \in Surjection(S, 1..c)
    BY <1>3, <1>4, FS_Injection
<1>. QED
    BY <1>5 DEF Surjection

LEMMA FiniteSeeds ==
    ASSUME NEW input
    PROVE  SeedsOf(input) \in SUBSET Nat /\ IsFiniteSet(SeedsOf(input))
<1>1. SeedsOf(input) \in SUBSET (1..Len(RunSeeds)) /\ IsFiniteSet(1..Len(RunSeeds))
    BY Lists, FS_Interval DEF SeedsOf
<1>. QED
    BY <1>1, FS_Subset

LEMMA FiniteKeyless ==
    ASSUME TypeOK, NEW input
    PROVE  Keyless(input) \in SUBSET Nat /\ IsFiniteSet(Keyless(input))
<1>1. Len(runs) \in Nat /\ DOMAIN runs = 1..Len(runs)
    BY DEF TypeOK
<1>2. Keyless(input) \in SUBSET (1..Len(runs)) /\ IsFiniteSet(1..Len(runs))
    BY <1>1, FS_Interval DEF Keyless
<1>. QED
    BY <1>2, FS_Subset

\* Every run of an earlier script gets the key of a seed of its input, and no
\* two the same.
LEMMA ReconciledFresh ==
    ASSUME TypeOK, Fresh
    PROVE  /\ DOMAIN Reconciled = DOMAIN runs
           /\ \A i \in DOMAIN runs : \E n \in DOMAIN RunSeeds :
                 /\ Reconciled[i].key = RunSeeds[n].key /\ Reconciled[i].input = RunSeeds[n].input
                 /\ Reconciled[i].approval = "none"
           /\ \A i, j \in DOMAIN runs : Reconciled[i].key = Reconciled[j].key => i = j
<1>1. \A i \in DOMAIN runs : runs[i] \in Run
    BY DEF TypeOK
<1>2. ASSUME NEW i \in DOMAIN runs
      PROVE  \E n \in DOMAIN RunSeeds : Matches(i, n)
    <2> DEFINE input == runs[i].input
               K == Keyless(input)
               S == SeedsOf(input)
    <2>1. runs[i].key = NoKey /\ input \in Inputs /\ i \in K
        BY <1>1 DEF Fresh, Keyless, Run
    <2>2. Cardinality(K) <= Cardinality(S) /\ IsFiniteSet(K) /\ IsFiniteSet(S)
        BY <2>1, FiniteKeyless, FiniteSeeds DEF Fresh
    <2> DEFINE A == {j \in K : j <= i}
    <2>3. IsFiniteSet(A) /\ Cardinality(A) <= Cardinality(K) /\ i \in A
        BY <2>1, <2>2, FS_Subset, FiniteKeyless
    <2>4. Cardinality(A) \in Nat /\ Cardinality(A) # 0
        BY <2>3, FS_CardinalityType, FS_EmptySet
    <2>5. Cardinality(K) \in Nat /\ Cardinality(S) \in Nat
        BY <2>2, FS_CardinalityType
    <2>6. Rank(K, i) \in 1..Cardinality(S)
        BY <2>2, <2>3, <2>4, <2>5 DEF Rank
    <2>7. PICK n \in S : Rank(S, n) = Rank(K, i)
        BY <2>6, FiniteSeeds, RankOnto
    <2>. QED
        BY <2>1, <2>7 DEF Matches, SeedsOf
<1>3. ASSUME NEW i \in DOMAIN runs
      PROVE  \E n \in DOMAIN RunSeeds : 
                /\ Matches(i, n) /\ Reconciled[i].key = RunSeeds[n].key
                /\ Reconciled[i].input = runs[i].input /\ Reconciled[i].approval = runs[i].approval
    <2> DEFINE n == CHOOSE n \in DOMAIN RunSeeds : Matches(i, n)
    <2>1. n \in DOMAIN RunSeeds /\ Matches(i, n)
        BY <1>2
    <2>2. Reconciled[i] = [runs[i] EXCEPT !.key = RunSeeds[n].key]
        BY <1>2 DEF Reconciled
    <2> HIDE DEF n
    <2>3. /\ Reconciled[i].key = RunSeeds[n].key
          /\ Reconciled[i].input = runs[i].input /\ Reconciled[i].approval = runs[i].approval
        BY <1>1, <2>2 DEF Run
    <2>. QED
        BY <2>1, <2>3
<1>4. ASSUME NEW i \in DOMAIN runs
      PROVE  \E n \in DOMAIN RunSeeds :
                 /\ Reconciled[i].key = RunSeeds[n].key /\ Reconciled[i].input = RunSeeds[n].input
                 /\ Reconciled[i].approval = "none"
    BY <1>3 DEF Fresh, Matches, SeedsOf
<1>5. ASSUME NEW i \in DOMAIN runs, NEW j \in DOMAIN runs, Reconciled[i].key = Reconciled[j].key
      PROVE  i = j
    <2>1. PICK n \in DOMAIN RunSeeds : Matches(i, n) /\ Reconciled[i].key = RunSeeds[n].key
        BY <1>3
    <2>2. PICK m \in DOMAIN RunSeeds : Matches(j, m) /\ Reconciled[j].key = RunSeeds[m].key
        BY <1>3
    <2>3. n = m
        BY <1>5, <2>1, <2>2, ConstantsAssumption
    <2>4. runs[i].input = runs[j].input
        BY <2>1, <2>2, <2>3 DEF Matches, SeedsOf
    <2>5. /\ i \in Keyless(runs[i].input) /\ j \in Keyless(runs[i].input)
          /\ Rank(Keyless(runs[i].input), i) = Rank(Keyless(runs[i].input), j)
        BY <2>1, <2>2, <2>3, <2>4 DEF Matches, Keyless
    <2>. QED
        BY <2>5, RankTells, FiniteKeyless
<1>. QED
    BY <1>4, <1>5 DEF Reconciled

\* Once every run has its key, nothing is left to do.
LEMMA ReconciledSeeded ==
    ASSUME TypeOK, Seeded
    PROVE  Reconciled = runs
<1>1. ASSUME NEW i \in DOMAIN runs
      PROVE  runs[i].key # NoKey
    <2>1. PICK n \in DOMAIN RunSeeds : runs[i].key = RunSeeds[n].key
        BY DEF Seeded, RunFor
    <2>. QED
        BY <2>1, Seeds, ConstantsAssumption
<1>2. ASSUME NEW i \in DOMAIN runs
      PROVE  Reconciled[i] = runs[i]
    BY <1>1 DEF Reconciled, Matches
<1>3. DOMAIN Reconciled = DOMAIN runs /\ Reconciled = [i \in DOMAIN runs |-> Reconciled[i]]
    BY DEF Reconciled
<1>4. runs = [i \in DOMAIN runs |-> runs[i]]
    BY DEF TypeOK
<1>. QED
    BY <1>2, <1>3, <1>4

-----------------------------------------------------------------------------
(* The runs.                                                               *)

\* The run of the seed n is made; the request of the run i is made or decided.
RunAdded(n, a) ==
    /\ ~HasRun(RunSeeds[n].key)
    /\ RunSeeds[n].review = "none" => a = "none"
    /\ runs' = Append(runs, [key |-> RunSeeds[n].key, input |-> RunSeeds[n].input, approval |-> a])
RequestChanged(i, n, a) ==
    /\ runs[i].key = RunSeeds[n].key /\ RunSeeds[n].review # "none"
    /\ runs[i].approval \notin Decisions
    /\ runs' = [runs EXCEPT ![i].approval = a]

LEMMA RunsEffect ==
    ASSUME TypeOK, ScriptOK, RunsOK, RunsDone, EvaluationsOK, HistoryFollowsManifest, LifecyclesOK,
           EventsDone, [Next]_vars
    PROVE  \/ UNCHANGED runs /\ (Fresh => script'.pc \in {"idle", "versions", "normalize"})
           \/ runs' = Reconciled
           \/ Seeded /\ \E n \in DOMAIN RunSeeds, a \in {"none", "PENDING"} : RunAdded(n, a)
           \/ Seeded /\ \E i \in DOMAIN runs, n \in DOMAIN RunSeeds, a \in {"PENDING"} \cup Decisions :
                            RequestChanged(i, n, a)
<1> DEFINE Same == UNCHANGED runs /\ (Fresh => script'.pc \in {"idle", "versions", "normalize"})
           New == Seeded /\ \E n \in DOMAIN RunSeeds, a \in {"none", "PENDING"} : RunAdded(n, a)
           Changed == Seeded /\ \E i \in DOMAIN runs, n \in DOMAIN RunSeeds, a \in {"PENDING"} \cup Decisions :
                            RequestChanged(i, n, a)
<1>1. CASE UNCHANGED vars
    BY <1>1 DEF vars, rows, Fresh
<1>2. CASE Begin
    BY <1>2, Goes DEF Begin, rows, Pcs
<1>3. CASE EnsureVersion
    BY <1>3, EnsuredVersion DEF EnsureVersion
<1>4. CASE Normalize
    BY <1>4 DEF Normalize, NormalizeTo
<1>5. CASE EnsureRun
    <2> DEFINE n == script.next
    <2>1. n \in DOMAIN RunSeeds /\ ~Fresh
        BY <1>5, Positions DEF EnsureRun, Fresh
    <2>2. CASE HasRun(RunSeeds[n].key)
        BY <1>5, <2>1, <2>2 DEF EnsureRun
    <2>3. CASE ~HasRun(RunSeeds[n].key)
        <3>1. RunAdded(n, IF RunSeeds[n].review = "none" THEN "none" ELSE "PENDING")
            BY <1>5, <2>3 DEF EnsureRun, RunAdded
        <3>. QED
            BY <2>1, <3>1 DEF RunsOK
    <2>. QED
        BY <2>2, <2>3
<1>6. CASE FindApproval
    BY <1>6 DEF FindApproval, rows, Fresh
<1>7. CASE Review
    <2>1. PICK i \in DOMAIN runs :
              /\ runs[i].key = RunSeeds[script.next].key
              /\ \/ /\ runs[i].approval = "PENDING"
                    /\ runs' = [runs EXCEPT ![i].approval = RunSeeds[script.next].review]
                 \/ UNCHANGED runs
        BY <1>7, Reviewed
    <2>2. script.next \in DOMAIN RunSeeds /\ RunSeeds[script.next].review \in Decisions /\ Seeded /\ ~Fresh
        BY <1>7, Reviewed DEF Fresh
    <2>3. CASE UNCHANGED runs
        BY <2>2, <2>3
    <2>4. CASE /\ runs[i].approval = "PENDING"
               /\ runs' = [runs EXCEPT ![i].approval = RunSeeds[script.next].review]
        <3>1. RequestChanged(i, script.next, RunSeeds[script.next].review)
            BY <2>1, <2>2, <2>4 DEF RequestChanged, Decisions
        <3>. QED
            BY <2>2, <3>1
    <2>. QED
        BY <2>1, <2>3, <2>4
<1>8. CASE EnsureEvaluation
    BY <1>8 DEF EnsureEvaluation, Fresh
<1>9. CASE EnsureDeployment
    BY <1>9 DEF EnsureDeployment, Fresh
<1>10. CASE Crash
    BY <1>10, GivesUp DEF Crash, rows
<1>11. CASE BreakRun
    <2> DEFINE n == script.next
    <2>1. n \in DOMAIN RunSeeds /\ ~Fresh
        BY <1>11, Positions DEF BreakRun, Fresh
    <2>2. RunAdded(n, "none")
        BY <1>11 DEF BreakRun, RunAdded
    <2>. QED
        BY <2>1, <2>2 DEF RunsOK
<1>12. ASSUME NEW status, NEW results, BreakEvaluation(status, results)
       PROVE  Same
    BY <1>12 DEF BreakEvaluation, Fresh
<1>13. ASSUME NEW i \in DOMAIN runs, AskLate(i)
       PROVE  Changed
    <2>1. PICK n \in DOMAIN RunSeeds : RunSeeds[n].key = runs[i].key /\ RunSeeds[n].review # "none"
        BY <1>13 DEF AskLate, Elements
    <2>2. ~Fresh
        BY <1>13, <2>1, Seeds, ConstantsAssumption DEF Fresh
    <2>3. RequestChanged(i, n, "PENDING")
        BY <1>13, <2>1 DEF AskLate, RequestChanged, Decisions
    <2>. QED
        BY <2>1, <2>2, <2>3 DEF RunsOK
<1>14. ASSUME NEW i \in DOMAIN runs, NEW decision \in Decisions, Decide(i, decision)
       PROVE  Changed
    <2>1. ~Fresh
        BY <1>14 DEF Decide, Fresh
    <2>2. PICK n \in DOMAIN RunSeeds : RunFor(i, n)
        BY <2>1 DEF RunsOK, Seeded
    <2>3. RequestChanged(i, n, decision)
        BY <1>14, <2>2 DEF Decide, RunFor, RequestChanged, Decisions
    <2>. QED
        BY <2>1, <2>3 DEF RunsOK
<1>15. ASSUME NEW i \in DOMAIN evaluations, EvaluateLate(i)
       PROVE  Same
    BY <1>15 DEF EvaluateLate, Fresh
<1>. QED
    BY <1>1, <1>2, <1>3, <1>4, <1>5, <1>6, <1>7, <1>8, <1>9, <1>10, <1>11, <1>12, <1>13, <1>14, <1>15
       DEF Next, Step, Decisions

LEMMA RunsStep ==
    ASSUME TypeOK, ScriptOK, RunsOK, RunsDone, EvaluationsOK, HistoryFollowsManifest, LifecyclesOK,
           EventsDone, [Next]_vars
    PROVE  /\ RunsOK'
           /\ \A n \in DOMAIN RunSeeds :
                 /\ HasRun(RunSeeds[n].key) => HasRun(RunSeeds[n].key)'
                 /\ RunDone(RunSeeds[n]) => RunDone(RunSeeds[n])'
<1>1. CASE UNCHANGED runs /\ (Fresh => script'.pc \in {"idle", "versions", "normalize"})
    BY <1>1 DEF RunsOK, Fresh, Seeded, RunFor, HasRun, RunDone, Keyless
<1>2. CASE runs' = Reconciled
    <2>1. CASE Fresh
        <3>1. Seeded'
            BY <1>2, <2>1, ReconciledFresh DEF Seeded, RunFor
        <3>2. ASSUME NEW n \in DOMAIN RunSeeds
              PROVE  ~HasRun(RunSeeds[n].key) /\ ~RunDone(RunSeeds[n])
            BY <2>1, Seeds, ConstantsAssumption DEF HasRun, RunDone, Fresh
        <3>. QED
            BY <3>1, <3>2 DEF RunsOK
    <2>2. CASE Seeded
        <3>1. runs' = runs
            BY <1>2, <2>2, ReconciledSeeded
        <3>. QED
            BY <2>2, <3>1 DEF RunsOK, Seeded, RunFor, HasRun, RunDone
    <2>. QED
        BY <2>1, <2>2 DEF RunsOK
<1>3. ASSUME Seeded, NEW n \in DOMAIN RunSeeds, NEW a \in {"none", "PENDING"}, RunAdded(n, a)
      PROVE  /\ RunsOK'
             /\ \A m \in DOMAIN RunSeeds :
                   /\ HasRun(RunSeeds[m].key) => HasRun(RunSeeds[m].key)'
                   /\ RunDone(RunSeeds[m]) => RunDone(RunSeeds[m])'
    <2> DEFINE run == [key |-> RunSeeds[n].key, input |-> RunSeeds[n].input, approval |-> a]
               l == Len(runs) + 1
    <2>1. run \in Run /\ run.key = RunSeeds[n].key /\ run.input = RunSeeds[n].input /\ run.approval = a
        BY Seeds DEF Run
    <2>2. runs' = Append(runs, run) /\ runs \in Seq(Run)
        BY <1>3 DEF RunAdded, TypeOK
    <2> HIDE DEF run
    <2>3. /\ DOMAIN runs \subseteq DOMAIN runs' /\ \A i \in DOMAIN runs : runs'[i] = runs[i]
          /\ l \in DOMAIN runs' /\ runs'[l] = run
          /\ \A i \in DOMAIN runs' : i \in DOMAIN runs \/ i = l
        BY <2>1, <2>2, Appended
    <2>4. \A i \in DOMAIN runs : runs[i].key # RunSeeds[n].key
        BY <1>3 DEF RunAdded, HasRun
    <2>5. \A i \in DOMAIN runs' : \E m \in DOMAIN RunSeeds : RunFor(i, m)'
        <3> SUFFICES ASSUME NEW i \in DOMAIN runs'
                     PROVE  \E m \in DOMAIN RunSeeds : RunFor(i, m)'
            OBVIOUS
        <3>1. CASE i \in DOMAIN runs
            BY <1>3, <2>3, <3>1 DEF Seeded, RunFor
        <3>2. CASE i = l
            BY <1>3, <2>1, <2>3, <3>2 DEF RunFor, RunAdded
        <3>. QED
            BY <2>3, <3>1, <3>2
    <2>6. \A i, j \in DOMAIN runs' : runs'[i].key = runs'[j].key => i = j
        BY <1>3, <2>1, <2>3, <2>4 DEF Seeded
    <2>7. Seeded'
        BY <2>5, <2>6 DEF Seeded
    <2>8. ASSUME NEW m \in DOMAIN RunSeeds
          PROVE  /\ HasRun(RunSeeds[m].key) => HasRun(RunSeeds[m].key)'
                 /\ RunDone(RunSeeds[m]) => RunDone(RunSeeds[m])'
        BY <2>3 DEF HasRun, RunDone
    <2>. QED
        BY <2>7, <2>8 DEF RunsOK
<1>4. ASSUME Seeded, NEW i \in DOMAIN runs, NEW n \in DOMAIN RunSeeds,
             NEW a \in {"PENDING"} \cup Decisions, RequestChanged(i, n, a)
      PROVE  /\ RunsOK'
             /\ \A m \in DOMAIN RunSeeds :
                   /\ HasRun(RunSeeds[m].key) => HasRun(RunSeeds[m].key)'
                   /\ RunDone(RunSeeds[m]) => RunDone(RunSeeds[m])'
    <2>1. /\ DOMAIN runs' = DOMAIN runs
          /\ \A j \in DOMAIN runs :
                /\ runs'[j].key = runs[j].key /\ runs'[j].input = runs[j].input
                /\ runs'[j].approval = IF j = i THEN a ELSE runs[j].approval
        BY <1>4, Updated DEF RequestChanged
    <2>2. \A m \in DOMAIN RunSeeds : RunSeeds[m].review = "none" => RunSeeds[m].key # runs[i].key
        BY <1>4, ConstantsAssumption DEF RequestChanged
    <2>3. \A j \in DOMAIN runs, m \in DOMAIN RunSeeds : RunFor(j, m) => RunFor(j, m)'
        BY <2>1, <2>2 DEF RunFor
    <2>4. Seeded'
        BY <1>4, <2>1, <2>3 DEF Seeded
    <2>5. ASSUME NEW m \in DOMAIN RunSeeds
          PROVE  /\ HasRun(RunSeeds[m].key) => HasRun(RunSeeds[m].key)'
                 /\ RunDone(RunSeeds[m]) => RunDone(RunSeeds[m])'
        <3>1. HasRun(RunSeeds[m].key) => HasRun(RunSeeds[m].key)'
            BY <2>1 DEF HasRun
        <3>2. ASSUME NEW j \in DOMAIN runs, runs[j].key = RunSeeds[m].key,
                     RunSeeds[m].review \in Decisions => runs[j].approval \in Decisions
              PROVE  RunDone(RunSeeds[m])'
            BY <1>4, <2>1, <3>2 DEF RunDone, RequestChanged
        <3>. QED
            BY <3>1, <3>2 DEF RunDone
    <2>. QED
        BY <2>4, <2>5 DEF RunsOK
<1>. QED
    BY <1>1, <1>2, <1>3, <1>4, RunsEffect

-----------------------------------------------------------------------------
(* The evaluations.                                                        *)

\* An evaluation of v is added.
LEMMA EvaluationAdded ==
    ASSUME TypeOK, EvaluationsOK, NEW v \in Elements(EvaluationSeeds), ~Evaluated(v),
           NEW e \in Evaluation, e.version = v, evaluations' = Append(evaluations, e)
    PROVE  /\ EvaluationsOK'
           /\ Evaluated(v)'
           /\ \A w \in Versions : Evaluated(w) => Evaluated(w)'
<1> DEFINE l == Len(evaluations) + 1
<1>1. /\ DOMAIN evaluations \subseteq DOMAIN evaluations'
      /\ \A i \in DOMAIN evaluations : evaluations'[i] = evaluations[i]
      /\ l \in DOMAIN evaluations' /\ evaluations'[l] = e
      /\ \A i \in DOMAIN evaluations' : i \in DOMAIN evaluations \/ i = l
    BY Appended DEF TypeOK
<1>2. \A i \in DOMAIN evaluations : evaluations[i].version # v
    BY DEF Evaluated
<1> HIDE DEF l
<1>3. \A i \in DOMAIN evaluations' : evaluations'[i].version \in Elements(EvaluationSeeds)
    BY <1>1 DEF EvaluationsOK
<1>4. \A i, j \in DOMAIN evaluations' : evaluations'[i].version = evaluations'[j].version => i = j
    BY <1>1, <1>2 DEF EvaluationsOK
<1>5. EvaluationsOK' /\ Evaluated(v)'
    BY <1>1, <1>3, <1>4 DEF EvaluationsOK, Evaluated
<1>6. ASSUME NEW w \in Versions
      PROVE  Evaluated(w) => Evaluated(w)'
    BY <1>1 DEF Evaluated
<1>. QED
    BY <1>5, <1>6

\* The evaluations are updated, of the same versions as before.
LEMMA EvaluationsUpdated ==
    ASSUME EvaluationsOK, DOMAIN evaluations' = DOMAIN evaluations,
           \A i \in DOMAIN evaluations : evaluations'[i].version = evaluations[i].version
    PROVE  /\ EvaluationsOK'
           /\ \A w \in Versions : Evaluated(w) => Evaluated(w)'
BY DEF EvaluationsOK, Evaluated

LEMMA EvaluationsStep ==
    ASSUME TypeOK, ScriptOK, EvaluationsOK, [Next]_vars
    PROVE  /\ EvaluationsOK'
           /\ \A w \in Versions : Evaluated(w) => Evaluated(w)'
<1> USE DEF rows
<1>1. CASE UNCHANGED evaluations
    BY <1>1, EvaluationsUpdated
<1>2. CASE Normalize
    <2>1. evaluations' = Mended
        BY <1>2 DEF Normalize, NormalizeTo
    <2>. QED
        BY <2>1, MendedType, EvaluationsUpdated
<1>3. CASE EnsureEvaluation
    <2> DEFINE v == EvaluationSeeds[script.next]
               e == [version |-> v, status |-> "PASSED", results |-> TRUE, open |-> FALSE]
    <2>1. v \in Elements(EvaluationSeeds) /\ v \in Versions
        BY <1>3, Positions, Seeds DEF EnsureEvaluation, Elements
    <2>2. e \in Evaluation /\ e.version = v
        BY <2>1 DEF Evaluation
    <2>3. \/ UNCHANGED evaluations
          \/ ~Evaluated(v) /\ evaluations' = Append(evaluations, e)
        BY <1>3 DEF EnsureEvaluation
    <2> HIDE DEF e, v
    <2>. QED
        BY <1>1, <2>1, <2>2, <2>3, EvaluationAdded
<1>4. ASSUME NEW status \in {"RUNNING", "FAILED"}, NEW results \in BOOLEAN,
             BreakEvaluation(status, results)
      PROVE  /\ EvaluationsOK'
             /\ \A w \in Versions : Evaluated(w) => Evaluated(w)'
    <2> DEFINE v == EvaluationSeeds[script.next]
               e == [version |-> v, status |-> status, results |-> results, open |-> status = "RUNNING"]
    <2>1. v \in Elements(EvaluationSeeds) /\ v \in Versions
        BY <1>4, Positions, Seeds DEF BreakEvaluation, Elements
    <2>2. e \in Evaluation /\ e.version = v
        BY <2>1 DEF Evaluation
    <2>3. ~Evaluated(v) /\ evaluations' = Append(evaluations, e)
        BY <1>4 DEF BreakEvaluation
    <2> HIDE DEF e, v
    <2>. QED
        BY <2>1, <2>2, <2>3, EvaluationAdded
<1>5. ASSUME NEW i \in DOMAIN evaluations, EvaluateLate(i)
      PROVE  /\ EvaluationsOK'
             /\ \A w \in Versions : Evaluated(w) => Evaluated(w)'
    BY <1>5, EvaluatedLate, EvaluationsUpdated
<1>. QED
    BY <1>1, <1>2, <1>3, <1>4, <1>5
       DEF Next, Step, vars, Begin, EnsureVersion, EnsureRun, FindApproval, Review, EnsureDeployment,
           Crash, BreakRun, AskLate, Decide

-----------------------------------------------------------------------------
(* The history of deployments.                                             *)

LEMMA HistoryStep ==
    ASSUME TypeOK, ScriptOK, RunsOK, RunsDone, EvaluationsOK, HistoryFollowsManifest, LifecyclesOK,
           EventsDone, [Next]_vars
    PROVE  /\ HistoryFollowsManifest' /\ LifecyclesOK'
           /\ Len(events) <= Len(events')
           /\ \A v \in Versions : versions[v] # "ABSENT" => versions'[v] # "ABSENT"
<1>1. /\ Len(events) \in Nat
      /\ \A m \in 1..Len(events) : m \in DOMAIN DeploymentSeeds /\ DeploymentSeeds[m].target \in Versions
    BY Recorded, Seeds
<1>3. CASE UNCHANGED <<versions, events>> /\ script'.lifecycles = script.lifecycles
    BY <1>1, <1>3 DEF HistoryFollowsManifest, LifecyclesOK
<1>4. CASE EnsureVersion
    <2> DEFINE v == VersionSeeds[script.next]
    <2>1. /\ v \in Versions /\ events' = events
          /\ versions' = [versions EXCEPT ![v] = versions'[v]]
          /\ versions'[v] = IF versions[v] = "ABSENT" THEN "DRAFT" ELSE versions[v]
          /\ script'.lifecycles = [script.lifecycles EXCEPT ![v] = versions'[v]]
        BY <1>4, EnsuredVersion DEF EnsureVersion
    <2>2. versions \in [Versions -> Lifecycle] /\ script.lifecycles \in [Versions -> Lifecycle]
        BY DEF TypeOK, Script
    <2> HIDE DEF v
    <2>3. ASSUME NEW w \in Versions
          PROVE  /\ versions'[w] = IF w = v /\ versions[v] = "ABSENT" THEN "DRAFT" ELSE versions[w]
                 /\ script'.lifecycles[w] = IF w = v THEN versions'[v] ELSE script.lifecycles[w]
        BY <2>1, <2>2
    <2>4. ASSUME NEW w \in Versions, InCharge(Len(events), w)
          PROVE  \E m \in 1..Len(events) : Puts(m) /\ DeploymentSeeds[m].target = w
        BY <2>4 DEF InCharge
    <2>5. LifecyclesOK'
        <3> SUFFICES ASSUME NEW w \in Versions
                     PROVE  /\ versions'[w] = "PRODUCTION" <=> InCharge(Len(events), w)
                            /\ versions'[w] = "DEPRECATED" <=> Retired(Len(events), w)
                            /\ script'.lifecycles[w] = "PRODUCTION" =>
                                  \E m \in 1..Len(events) : Puts(m) /\ DeploymentSeeds[m].target = w
                            /\ script'.lifecycles[w] = "DEPRECATED" => Retired(Len(events), w)
            BY <2>1 DEF LifecyclesOK
        <3>1. /\ versions'[w] = "PRODUCTION" <=> InCharge(Len(events), w)
              /\ versions'[w] = "DEPRECATED" <=> Retired(Len(events), w)
            BY <2>1, <2>3 DEF LifecyclesOK
        <3>. QED
            BY <2>1, <2>3, <2>4, <3>1 DEF LifecyclesOK
    <2>6. HistoryFollowsManifest'
        BY <2>1 DEF HistoryFollowsManifest
    <2>. QED
        BY <1>1, <2>1, <2>3, <2>5, <2>6
<1>5. ASSUME NEW n \in DOMAIN DeploymentSeeds, Taken(n), NextDeployment
      PROVE  /\ HistoryFollowsManifest' /\ LifecyclesOK'
             /\ Len(events) <= Len(events')
             /\ \A v \in Versions : versions[v] # "ABSENT" => versions'[v] # "ABSENT"
    <2>1. /\ events' \in Seq(Event) /\ Len(events') = n /\ n = Len(events) + 1
          /\ \A i \in DOMAIN events' : events'[i] = Planned[i]
          /\ \A v \in Versions :
                /\ versions'[v] = "PRODUCTION" <=> InCharge(n, v)
                /\ versions'[v] = "DEPRECATED" <=> Retired(n, v)
                /\ versions'[v] = "ABSENT" => versions[v] = "ABSENT"
        BY <1>5, TakenLeaves
    <2>2. script'.lifecycles = script.lifecycles
        BY <1>5, AdvancesDeployments
    <2>3. n \in Nat /\ n \in DOMAIN DeploymentSeeds /\ n <= Len(DeploymentSeeds)
          /\ 1..n = 1..Len(events) \cup {n}
        BY <1>1, <1>5, <2>1, Lists
    <2>4. HistoryFollowsManifest'
        <3>1. Len(Planned) = Len(DeploymentSeeds)
            BY Lists DEF Planned
        <3>. QED
            BY <2>1, <2>3, <3>1 DEF HistoryFollowsManifest
    <2>5. ASSUME NEW v \in Versions
          PROVE  /\ script'.lifecycles[v] = "PRODUCTION" =>
                       \E m \in 1..n : Puts(m) /\ DeploymentSeeds[m].target = v
                 /\ script'.lifecycles[v] = "DEPRECATED" => Retired(n, v)
        BY <2>2, <2>3 DEF LifecyclesOK, Retired
    <2>6. LifecyclesOK'
        BY <2>1, <2>5 DEF LifecyclesOK
    <2>. QED
        BY <1>1, <2>1, <2>4, <2>6
<1>6. CASE EnsureDeployment
    <2>1. PICK n \in DOMAIN DeploymentSeeds : n = script.next
        BY <1>6, DeploymentEffect
    <2>2. \/ UNCHANGED <<versions, events>> /\ script'.lifecycles = script.lifecycles
          \/ Taken(n) /\ NextDeployment
        BY <1>6, <2>1, DeploymentEffect, AdvancesDeployments, GivesUp
    <2>. QED
        BY <1>3, <1>5, <2>2
<1>7. CASE UNCHANGED vars
    BY <1>3, <1>7 DEF vars, rows
<1>8. CASE Begin
    BY <1>3, <1>8, Goes DEF Begin, rows, Pcs
<1>9. CASE Normalize
    BY <1>3, <1>9, Goes DEF Normalize, NormalizeTo, Pcs
<1>10. CASE EnsureRun
    BY <1>3, <1>10, Positions, AdvancesRuns, Goes DEF EnsureRun, AfterFound, AfterRun, Pcs
<1>11. CASE FindApproval
    BY <1>3, <1>11, Positions, AdvancesRuns, GivesUp, Goes DEF FindApproval, rows, Pcs
<1>12. CASE Review
    BY <1>3, <1>12, AdvancesRuns, GivesUp DEF Review
<1>13. CASE EnsureEvaluation
    BY <1>3, <1>13, AdvancesEvaluations DEF EnsureEvaluation
<1>14. CASE Crash \/ BreakRun
    BY <1>3, <1>14, GivesUp DEF Crash, BreakRun, rows
<1>15. ASSUME NEW status, NEW results, BreakEvaluation(status, results)
       PROVE  UNCHANGED <<versions, events>> /\ script'.lifecycles = script.lifecycles
    BY <1>15, AdvancesEvaluations, GivesUp DEF BreakEvaluation
<1>16. ASSUME NEW i, AskLate(i) \/ EvaluateLate(i) \/ \E decision \in Decisions : Decide(i, decision)
       PROVE  UNCHANGED <<versions, events>> /\ script'.lifecycles = script.lifecycles
    BY <1>16 DEF AskLate, EvaluateLate, Decide
<1>. QED
    BY <1>3, <1>4, <1>6, <1>7, <1>8, <1>9, <1>10, <1>11, <1>12, <1>13, <1>14, <1>15, <1>16
       DEF Next, Step, Decisions

-----------------------------------------------------------------------------
(* The progress of the script.                                             *)

\* Nothing that is done is undone.
Kept ==
    /\ \A v \in Versions : versions[v] # "ABSENT" => versions'[v] # "ABSENT"
    /\ \A n \in DOMAIN RunSeeds :
          /\ HasRun(RunSeeds[n].key) => HasRun(RunSeeds[n].key)'
          /\ RunDone(RunSeeds[n]) => RunDone(RunSeeds[n])'
    /\ \A v \in Versions : Evaluated(v) => Evaluated(v)'
    /\ Len(events) \in Nat /\ Len(events') \in Nat /\ Len(events) <= Len(events')
    /\ Len(events') <= Len(DeploymentSeeds)

LEMMA KeptStep ==
    ASSUME IInv, [Next]_vars
    PROVE  Kept
<1> USE DEF IInv, Progress
<1>1. TypeOK'
    BY TypeStep
<1>2. /\ HistoryFollowsManifest'
      /\ Len(events) <= Len(events')
      /\ \A v \in Versions : versions[v] # "ABSENT" => versions'[v] # "ABSENT"
    BY HistoryStep
<1>3. Len(Planned) = Len(DeploymentSeeds)
    BY Lists DEF Planned
<1>4. Len(events) \in Nat /\ Len(events') \in Nat /\ Len(events') <= Len(DeploymentSeeds)
    BY <1>1, <1>2, <1>3 DEF TypeOK, HistoryFollowsManifest
<1>5. \A n \in DOMAIN RunSeeds :
          /\ HasRun(RunSeeds[n].key) => HasRun(RunSeeds[n].key)'
          /\ RunDone(RunSeeds[n]) => RunDone(RunSeeds[n])'
    BY RunsStep
<1>6. \A v \in Versions : Evaluated(v) => Evaluated(v)'
    BY EvaluationsStep
<1>. QED
    BY <1>2, <1>4, <1>5, <1>6 DEF Kept

\* The script starts over, or stays where it is.
LEMMA ProgressFromStart ==
    ASSUME script'.pc \in {"idle", "versions"}, script'.next = 1
    PROVE  Progress'
BY Lists DEF Progress, ScriptOK, VersionsDone, RunsDone, EvaluationsDone, EventsDone

LEMMA ProgressStays ==
    ASSUME TypeOK, Progress, Kept, script' = script
    PROVE  Progress'
<1>1. ScriptOK'
    BY DEF Progress, ScriptOK
<1>2. VersionsDone'
    BY Positions, Lists, Seeds DEF Progress, VersionsDone, Kept
<1>3. RunsDone'
    <2>1. ASSUME script.pc \in {"runs", "approval", "review"}, NEW m \in 1..(script.next - 1)
          PROVE  RunDone(RunSeeds[m])'
        <3>1. m \in DOMAIN RunSeeds
            BY <2>1, Positions, Lists DEF Progress
        <3>. QED
            BY <2>1, <3>1 DEF Progress, RunsDone, Kept
    <2>2. ASSUME script.pc \in {"approval", "review"}
          PROVE  HasRun(RunSeeds[script.next].key)'
        <3>1. PICK n \in DOMAIN RunSeeds : n = script.next
            BY <2>2, Positions DEF Progress
        <3>2. HasRun(RunSeeds[n].key)'
            BY <2>2, <3>1 DEF Progress, RunsDone, Kept
        <3>. QED
            BY <3>1, <3>2 DEF HasRun
    <2>. QED
        BY <2>1, <2>2 DEF Progress, RunsDone, Kept
<1>4. EvaluationsDone'
    <2>1. ASSUME script.pc = "evaluations", NEW m \in 1..(script.next - 1)
          PROVE  Evaluated(EvaluationSeeds[m])'
        <3>1. m \in DOMAIN EvaluationSeeds
            BY <2>1, Positions, Lists DEF Progress
        <3>. QED
            BY <2>1, <3>1, Seeds DEF Progress, EvaluationsDone, Kept
    <2>. QED
        BY <2>1, Seeds DEF Progress, EvaluationsDone, Kept
<1>5. EventsDone'
    BY Positions, Lists DEF Progress, EventsDone, Kept
<1>. QED
    BY <1>1, <1>2, <1>3, <1>4, <1>5 DEF Progress

\* On to the next seed, this one being done.
LEMMA ProgressInRuns ==
    ASSUME TypeOK, Progress, Kept, script.pc \in {"runs", "approval", "review"}, NextRun,
           NEW n \in DOMAIN RunSeeds, n = script.next, RunDone(RunSeeds[n])'
    PROVE  Progress'
<1>1. \/ n < Len(RunSeeds) /\ script'.pc = "runs" /\ script'.next = n + 1
      \/ ~(n < Len(RunSeeds)) /\ script'.pc = "evaluations" /\ script'.next = 1
    BY AdvancesRuns
<1>2. n \in 1..Len(RunSeeds) /\ Len(RunSeeds) \in Nat
    BY Lists
<1>3. ScriptOK'
    BY <1>1, <1>2, Lists DEF ScriptOK
<1>4. VersionsDone'
    BY <1>1 DEF Progress, VersionsDone, Kept
<1>5. ASSUME NEW m \in 1..n
      PROVE  RunDone(RunSeeds[m])'
    <2>1. m \in DOMAIN RunSeeds /\ (m = n \/ m \in 1..(n - 1))
        BY <1>2, Lists
    <2>. QED
        BY <2>1 DEF Progress, RunsDone, Kept
<1>6. RunsDone'
    <2>1. CASE n < Len(RunSeeds) /\ script'.pc = "runs" /\ script'.next = n + 1
        BY <1>2, <1>5, <2>1 DEF RunsDone
    <2>2. CASE ~(n < Len(RunSeeds)) /\ script'.pc = "evaluations" /\ script'.next = 1
        <3>1. DOMAIN RunSeeds = 1..n
            BY <1>2, <2>2, Lists
        <3>. QED
            BY <1>5, <2>2, <3>1 DEF RunsDone
    <2>. QED
        BY <1>1, <2>1, <2>2
<1>7. EvaluationsDone' /\ EventsDone'
    BY <1>1 DEF EvaluationsDone, EventsDone
<1>. QED
    BY <1>3, <1>4, <1>6, <1>7 DEF Progress

LEMMA ProgressInEvaluations ==
    ASSUME TypeOK, Progress, Kept, script.pc = "evaluations",
           NextOf(EvaluationSeeds, "evaluations", "deployments"),
           NEW n \in DOMAIN EvaluationSeeds, n = script.next, Evaluated(EvaluationSeeds[n])'
    PROVE  Progress'
<1>1. \/ n < Len(EvaluationSeeds) /\ script'.pc = "evaluations" /\ script'.next = n + 1
      \/ ~(n < Len(EvaluationSeeds)) /\ script'.pc = "deployments" /\ script'.next = 1
    BY AdvancesEvaluations
<1>2. n \in 1..Len(EvaluationSeeds) /\ Len(EvaluationSeeds) \in Nat
    BY Lists
<1>3. ScriptOK'
    BY <1>1, <1>2, Lists DEF ScriptOK
<1>4. VersionsDone' /\ RunsDone'
    BY <1>1 DEF Progress, VersionsDone, RunsDone, Kept
<1>5. ASSUME NEW m \in 1..n
      PROVE  Evaluated(EvaluationSeeds[m])'
    <2>1. m \in DOMAIN EvaluationSeeds /\ (m = n \/ m \in 1..(n - 1))
        BY <1>2, Lists
    <2>. QED
        BY <2>1, Seeds DEF Progress, EvaluationsDone, Kept
<1>6. EvaluationsDone'
    <2>1. CASE n < Len(EvaluationSeeds) /\ script'.pc = "evaluations" /\ script'.next = n + 1
        BY <1>2, <1>5, <2>1 DEF EvaluationsDone
    <2>2. CASE ~(n < Len(EvaluationSeeds)) /\ script'.pc = "deployments" /\ script'.next = 1
        <3>1. DOMAIN EvaluationSeeds = 1..n
            BY <1>2, <2>2, Lists
        <3>. QED
            BY <1>5, <2>2, <3>1 DEF EvaluationsDone
    <2>. QED
        BY <1>1, <2>1, <2>2
<1>7. EventsDone'
    BY <1>1 DEF EventsDone, Kept
<1>. QED
    BY <1>3, <1>4, <1>6, <1>7 DEF Progress

LEMMA ProgressInDeployments ==
    ASSUME TypeOK, Progress, Kept, script.pc = "deployments", NextDeployment,
           script.next <= Len(events')
    PROVE  Progress'
<1>1. \/ script.next < Len(DeploymentSeeds) /\ script'.pc = "deployments" /\ script'.next = script.next + 1
      \/ ~(script.next < Len(DeploymentSeeds)) /\ script'.pc = "finish" /\ script'.next = 1
    BY AdvancesDeployments
<1>2. script.next \in 1..Len(DeploymentSeeds) /\ Len(DeploymentSeeds) \in Nat
    BY Positions, Lists DEF Progress
<1>3. ScriptOK'
    BY <1>1, <1>2, Lists DEF ScriptOK
<1>4. VersionsDone' /\ RunsDone' /\ EvaluationsDone'
    BY <1>1, Seeds DEF Progress, VersionsDone, RunsDone, EvaluationsDone, Kept
<1>5. EventsDone'
    BY <1>1, <1>2 DEF EventsDone, Kept
<1>. QED
    BY <1>3, <1>4, <1>5 DEF Progress

\* The script turns to the request of the seed at which it stands.
LEMMA ProgressToRequest ==
    ASSUME TypeOK, Progress, Kept, script.pc \in {"runs", "approval", "review"},
           NEW n \in DOMAIN RunSeeds, n = script.next, RunSeeds[n].review \in Decisions,
           NEW l \in {"approval", "review"}, Goto(l, script.next), HasRun(RunSeeds[n].key)'
    PROVE  Progress'
<1>1. n \in Nat /\ 1 <= n /\ n <= Len(RunSeeds)
    BY Lists
<1>2. script'.pc = l /\ script'.next = n
    BY <1>1, Goes DEF Pcs
<1>3. ScriptOK'
    BY <1>1, <1>2 DEF ScriptOK
<1>4. VersionsDone'
    BY <1>2 DEF Progress, VersionsDone, Kept
<1>5. \A m \in 1..(n - 1) : RunDone(RunSeeds[m])'
    BY <1>1, Lists DEF Progress, RunsDone, Kept
<1>6. RunsDone'
    BY <1>2, <1>5 DEF RunsDone, HasRun
<1>7. EvaluationsDone' /\ EventsDone'
    BY <1>2 DEF EvaluationsDone, EventsDone
<1>. QED
    BY <1>3, <1>4, <1>6, <1>7 DEF Progress

LEMMA ProgressEnsureVersion ==
    ASSUME TypeOK, Progress, Kept, EnsureVersion
    PROVE  Progress'
<1>1. PICK n \in DOMAIN VersionSeeds : n = script.next
    BY EnsuredVersion DEF Progress
<1>2. /\ script.pc = "versions" /\ n \in 1..Len(VersionSeeds)
      /\ versions'[VersionSeeds[n]] # "ABSENT"
      /\ \/ n < Len(VersionSeeds) /\ script'.pc = "versions" /\ script'.next = n + 1
         \/ ~(n < Len(VersionSeeds)) /\ script'.pc = "normalize" /\ script'.next = 1
    BY <1>1, EnsuredVersion, Lists DEF Progress
<1>3. ScriptOK'
    BY <1>2, Lists DEF ScriptOK
<1>4. ASSUME NEW m \in 1..n
      PROVE  versions'[VersionSeeds[m]] # "ABSENT"
    <2>1. m \in DOMAIN VersionSeeds /\ (m = n \/ m \in 1..(n - 1))
        BY <1>2, Lists
    <2>. QED
        BY <1>1, <1>2, <2>1, Seeds DEF Progress, VersionsDone, Kept
<1>5. VersionsDone'
    <2>1. CASE n < Len(VersionSeeds) /\ script'.pc = "versions" /\ script'.next = n + 1
        BY <1>2, <1>4, <2>1 DEF VersionsDone
    <2>2. CASE ~(n < Len(VersionSeeds)) /\ script'.pc = "normalize" /\ script'.next = 1
        <3>1. DOMAIN VersionSeeds = 1..n
            BY <1>2, <2>2, Lists
        <3>2. \A v \in Versions : versions'[v] # "ABSENT"
            BY <1>4, <3>1 DEF Versions, Elements
        <3>. QED
            BY <2>2, <3>2 DEF VersionsDone
    <2>. QED
        BY <1>2, <2>1, <2>2
<1>6. RunsDone' /\ EvaluationsDone' /\ EventsDone'
    BY <1>2 DEF RunsDone, EvaluationsDone, EventsDone
<1>. QED
    BY <1>3, <1>5, <1>6 DEF Progress

LEMMA ProgressNormalize ==
    ASSUME TypeOK, Progress, Kept, Normalize
    PROVE  Progress'
<1>1. \/ script.pc = "normalize" /\ script'.pc = "runs" /\ script'.next = 1
      \/ script.pc = "finish" /\ script'.pc = "done" /\ script'.next = 1
    BY Goes DEF Normalize, NormalizeTo, Pcs
<1>2. ScriptOK'
    BY <1>1, Lists DEF ScriptOK
<1>3. VersionsDone'
    BY <1>1 DEF Progress, VersionsDone, Kept
<1>4. RunsDone' /\ EvaluationsDone'
    BY <1>1, Seeds DEF Progress, RunsDone, EvaluationsDone, Kept
<1>5. EventsDone'
    BY <1>1, Lists DEF Progress, EventsDone, Kept
<1>. QED
    BY <1>2, <1>3, <1>4, <1>5 DEF Progress

LEMMA ProgressEnsureRun ==
    ASSUME TypeOK, Progress, Kept, EnsureRun
    PROVE  Progress'
<1>1. PICK n \in DOMAIN RunSeeds : n = script.next
    BY Positions DEF EnsureRun, Progress
<1> DEFINE s == RunSeeds[n]
           run == [key |-> s.key, input |-> s.input,
                   approval |-> IF s.review = "none" THEN "none" ELSE "PENDING"]
<1>2. /\ script.pc = "runs" /\ AfterRun(s)
      /\ HasRun(s.key) \/ runs' = Append(runs, run)
    BY <1>1 DEF EnsureRun, AfterFound
<1>3. HasRun(s.key)'
    <2>1. CASE HasRun(s.key)
        BY <2>1 DEF Kept
    <2>2. CASE runs' = Append(runs, run)
        <3>1. s \in [key : Keys, input : Inputs, review : Reviews]
            BY Seeds
        <3>2. run \in Run /\ run.key = s.key
            BY <3>1 DEF Run
        <3>3. Len(runs) + 1 \in DOMAIN runs' /\ runs'[Len(runs) + 1] = run
            BY <2>2, <3>2, Appended DEF TypeOK
        <3>. QED
            BY <3>2, <3>3 DEF HasRun
    <2>. QED
        BY <1>2, <2>1, <2>2
<1>4. CASE s.review \in Decisions
    BY <1>1, <1>2, <1>3, <1>4, ProgressToRequest DEF AfterRun
<1>5. CASE s.review \notin Decisions
    <2>1. RunDone(s)'
        BY <1>3, <1>5 DEF HasRun, RunDone
    <2>. QED
        BY <1>1, <1>2, <1>5, <2>1, ProgressInRuns DEF AfterRun
<1>. QED
    BY <1>4, <1>5

LEMMA ProgressFindApproval ==
    ASSUME TypeOK, Progress, RunsOK, Kept, FindApproval
    PROVE  Progress'
<1>1. PICK n \in DOMAIN RunSeeds : n = script.next
    BY Positions DEF FindApproval, Progress
<1> DEFINE s == RunSeeds[n]
           i == RunOf(s.key)
<1>2. script.pc = "approval" /\ s.review \in Decisions /\ HasRun(s.key) /\ Seeded /\ UNCHANGED runs
    BY <1>1 DEF FindApproval, Progress, ScriptOK, RunsDone, RunsOK, Fresh, rows
<1>3. i \in DOMAIN runs /\ runs[i].key = s.key
    BY <1>2, RunOfSeed
<1>4. runs[i].approval \in {"none", "PENDING"} \cup Decisions
    <2> HIDE DEF i
    <2>1. runs[i] \in Run
        BY <1>3 DEF TypeOK
    <2>. QED
        BY <2>1 DEF Run
<1>5. CASE runs[i].approval = "none"
    BY <1>1, <1>5, GivesUp, ProgressFromStart DEF FindApproval
<1>6. CASE runs[i].approval = "PENDING"
    <2>1. Goto("review", script.next)
        BY <1>1, <1>6 DEF FindApproval
    <2>. QED
        BY <1>1, <1>2, <2>1, ProgressToRequest DEF Kept
<1>7. CASE runs[i].approval \in Decisions
    <2>1. NextRun
        BY <1>1, <1>7 DEF FindApproval, Decisions
    <2>2. RunDone(s)
        BY <1>3, <1>7 DEF RunDone
    <2>. QED
        BY <1>1, <1>2, <2>1, <2>2, ProgressInRuns DEF Kept
<1>. QED
    BY <1>4, <1>5, <1>6, <1>7

LEMMA ProgressReview ==
    ASSUME TypeOK, Progress, RunsOK, Kept, Review
    PROVE  Progress'
<1>1. PICK n \in DOMAIN RunSeeds : n = script.next
    BY Positions DEF Review, Progress
<1> DEFINE s == RunSeeds[n]
<1>2. PICK i \in DOMAIN runs :
          /\ runs[i].key = s.key
          /\ \/ runs[i].approval = "PENDING" /\ NextRun /\ runs' = [runs EXCEPT ![i].approval = s.review]
             \/ UNCHANGED runs /\ GiveUp
    BY <1>1, Reviewed DEF Progress
<1>3. script.pc = "review" /\ s.review \in Decisions
    BY <1>1, Reviewed DEF Progress
<1>4. CASE GiveUp
    BY <1>4, GivesUp, ProgressFromStart
<1>5. CASE NextRun /\ runs' = [runs EXCEPT ![i].approval = s.review]
    <2> DEFINE a == s.review
    <2>3. a \in {"none", "PENDING"} \cup Decisions /\ runs' = [runs EXCEPT ![i].approval = a]
        BY <1>3, <1>5
    <2>4. runs[i].key = s.key
        BY <1>2
    <2> HIDE DEF a, s
    <2>5. /\ DOMAIN runs' = DOMAIN runs
          /\ \A j \in DOMAIN runs :
                /\ runs'[j].key = runs[j].key /\ runs'[j].input = runs[j].input
                /\ runs'[j].approval = IF j = i THEN a ELSE runs[j].approval
        BY <2>3, Updated
    <2>1. i \in DOMAIN runs' /\ runs'[i].key = s.key /\ runs'[i].approval = s.review
        BY <2>4, <2>5 DEF a
    <2> USE DEF s
    <2>2. RunDone(s)'
        BY <1>3, <2>1 DEF RunDone
    <2>. QED
        BY <1>1, <1>3, <1>5, <2>2, ProgressInRuns
<1>. QED
    BY <1>2, <1>4, <1>5

LEMMA ProgressStep ==
    ASSUME IInv, [Next]_vars
    PROVE  Progress'
<1>1. Kept /\ TypeOK /\ Progress /\ RunsOK /\ EvaluationsOK
    BY KeptStep DEF IInv
<1>2. CASE Begin
    BY <1>1, <1>2, Goes, ProgressFromStart DEF Begin, Pcs
<1>3. CASE EnsureEvaluation
    <2>1. PICK n \in DOMAIN EvaluationSeeds : n = script.next
        BY <1>1, <1>3, Positions DEF EnsureEvaluation, Progress
    <2> DEFINE v == EvaluationSeeds[n]
               e == [version |-> v, status |-> "PASSED", results |-> TRUE, open |-> FALSE]
    <2>2. v \in Versions /\ v \in Elements(EvaluationSeeds)
        BY Seeds DEF Elements
    <2>3. e \in Evaluation /\ e.version = v
        BY <2>2 DEF Evaluation
    <2>4. Evaluated(v) \/ evaluations' = Append(evaluations, e)
        BY <1>3, <2>1 DEF EnsureEvaluation
    <2> HIDE DEF e
    <2>5. Evaluated(v)'
        BY <1>1, <2>2, <2>3, <2>4, EvaluationAdded DEF Kept
    <2>. QED
        BY <1>1, <1>3, <2>1, <2>5, ProgressInEvaluations DEF EnsureEvaluation
<1>4. ASSUME NEW status \in {"RUNNING", "FAILED"}, NEW results \in BOOLEAN,
             BreakEvaluation(status, results)
      PROVE  Progress'
    <2>1. PICK n \in DOMAIN EvaluationSeeds : n = script.next
        BY <1>1, <1>4, Positions DEF BreakEvaluation, Progress
    <2> DEFINE v == EvaluationSeeds[n]
               e == [version |-> v, status |-> status, results |-> results, open |-> status = "RUNNING"]
    <2>2. v \in Versions /\ v \in Elements(EvaluationSeeds)
        BY Seeds DEF Elements
    <2>3. e \in Evaluation /\ e.version = v
        BY <2>2 DEF Evaluation
    <2>4. ~Evaluated(v) /\ evaluations' = Append(evaluations, e) /\ script.pc = "evaluations"
        BY <1>4, <2>1 DEF BreakEvaluation
    <2> HIDE DEF e
    <2>5. Evaluated(v)'
        BY <1>1, <2>2, <2>3, <2>4, EvaluationAdded
    <2>6. CASE GiveUp
        BY <1>1, <2>6, GivesUp, ProgressFromStart
    <2>7. CASE NextOf(EvaluationSeeds, "evaluations", "deployments")
        BY <1>1, <2>1, <2>4, <2>5, <2>7, ProgressInEvaluations
    <2>. QED
        BY <1>4, <2>6, <2>7 DEF BreakEvaluation
<1>5. CASE EnsureDeployment
    <2>1. /\ script.pc = "deployments" /\ script.next \in DOMAIN DeploymentSeeds
          /\ \/ UNCHANGED events /\ NextDeployment /\ script.next <= Len(events)
             \/ GiveUp
             \/ Taken(script.next) /\ NextDeployment
        BY <1>5, DeploymentEffect DEF IInv, Progress
    <2>2. CASE GiveUp
        BY <1>1, <2>2, GivesUp, ProgressFromStart
    <2>3. CASE UNCHANGED events /\ NextDeployment /\ script.next <= Len(events)
        BY <1>1, <2>1, <2>3, ProgressInDeployments
    <2>4. CASE Taken(script.next) /\ NextDeployment
        <3>1. script.next <= Len(events')
            BY <2>1, <2>4, TakenLeaves, Lists DEF IInv
        <3>. QED
            BY <1>1, <2>1, <2>4, <3>1, ProgressInDeployments
    <2>. QED
        BY <2>1, <2>2, <2>3, <2>4
<1>6. CASE Crash \/ BreakRun
    BY <1>1, <1>6, GivesUp, ProgressFromStart DEF Crash, BreakRun
<1>7. ASSUME NEW i, AskLate(i) \/ EvaluateLate(i) \/ \E decision \in Decisions : Decide(i, decision)
      PROVE  Progress'
    BY <1>1, <1>7, ProgressStays DEF AskLate, EvaluateLate, Decide
<1>8. CASE UNCHANGED vars
    BY <1>1, <1>8, ProgressStays DEF vars
<1>. QED
    BY <1>1, <1>2, <1>3, <1>4, <1>5, <1>6, <1>7, <1>8, ProgressEnsureVersion, ProgressNormalize,
       ProgressEnsureRun, ProgressFindApproval, ProgressReview
       DEF Next, Step, Decisions

-----------------------------------------------------------------------------
(* The theorems.                                                           *)

LEMMA InitIInv ==
    ASSUME Init
    PROVE  IInv
<1>1. PICK legacy \in LegacyRuns :
          /\ runs = [i \in DOMAIN legacy |->
                        [key |-> NoKey, input |-> legacy[i], approval |-> "none"]]
          /\ versions = [v \in Versions |->
                            IF \E i \in DOMAIN legacy : legacy[i].version = v THEN "DRAFT" ELSE "ABSENT"]
    BY DEF Init
<1>2. /\ evaluations = <<>> /\ events = <<>> /\ disturbances = 0
      /\ script = [pc |-> "idle", next |-> 1, lifecycles |-> [v \in Versions |-> "ABSENT"]]
    BY DEF Init
<1>3. /\ legacy \in Seq(Inputs)
      /\ \A input \in Inputs :
            Cardinality({i \in DOMAIN legacy : legacy[i] = input}) <= Cardinality(SeedsOf(input))
    BY LegacyAssumption
<1>4. DOMAIN runs = DOMAIN legacy /\ DOMAIN legacy = 1..Len(legacy) /\ Len(legacy) \in Nat
    BY <1>1, <1>3
<1>5. ASSUME NEW i \in DOMAIN runs
      PROVE  /\ runs[i] \in Run
             /\ runs[i].key = NoKey /\ runs[i].input = legacy[i] /\ runs[i].approval = "none"
    BY <1>1, <1>3, <1>4 DEF Run
<1>6. TypeOK
    <2>1. runs = [i \in 1..Len(legacy) |-> runs[i]]
        BY <1>1, <1>4
    <2>2. runs \in Seq(Run)
        BY <1>4, <1>5, <2>1
    <2>3. versions \in [Versions -> Lifecycle]
        BY <1>1 DEF Lifecycle
    <2>4. script \in Script
        BY <1>2 DEF Script, Lifecycle
    <2>. QED
        BY <1>2, <2>2, <2>3, <2>4, ConstantsAssumption DEF TypeOK
<1>7. RunsOK
    <2>1. \A input \in Inputs : Keyless(input) = {i \in DOMAIN legacy : legacy[i] = input}
        BY <1>4, <1>5 DEF Keyless
    <2>2. \A input \in Inputs : Cardinality(Keyless(input)) <= Cardinality(SeedsOf(input))
        BY <1>3, <2>1
    <2>3. script.pc = "idle"
        BY <1>2
    <2>. QED
        BY <1>5, <2>2, <2>3 DEF RunsOK, Fresh
<1>8. Progress
    BY <1>2 DEF Progress, ScriptOK, VersionsDone, RunsDone, EvaluationsDone, EventsDone
<1>9. EvaluationsOK
    BY <1>2 DEF EvaluationsOK
<1>10. Len(events) = 0 /\ 1..Len(events) = {}
    BY <1>2
<1>11. HistoryFollowsManifest
    BY <1>2, Lists DEF HistoryFollowsManifest, Planned
<1>12. LifecyclesOK
    <2>1. ASSUME NEW v \in Versions
          PROVE  /\ versions[v] \in {"DRAFT", "ABSENT"} /\ script.lifecycles[v] = "ABSENT"
                 /\ ~InCharge(Len(events), v) /\ ~Retired(Len(events), v)
        BY <1>1, <1>2, <1>10 DEF InCharge, Retired
    <2>. QED
        BY <1>10, <2>1 DEF LifecyclesOK
<1>. QED
    BY <1>6, <1>7, <1>8, <1>9, <1>11, <1>12 DEF IInv

LEMMA NextIInv ==
    ASSUME IInv, [Next]_vars
    PROVE  IInv'
<1>1. TypeOK' /\ RunsOK' /\ EvaluationsOK' /\ HistoryFollowsManifest' /\ LifecyclesOK'
    BY TypeStep, RunsStep, EvaluationsStep, HistoryStep DEF IInv, Progress
<1>2. Progress'
    BY ProgressStep
<1>. QED
    BY <1>1, <1>2 DEF IInv

LEMMA Invariant == Spec => []IInv
<1>1. Init => IInv
    BY InitIInv
<1>2. IInv /\ [Next]_vars => IInv'
    BY NextIInv
<1>. QED
    BY <1>1, <1>2, PTL DEF Spec

\* The rows and the script keep their types: no lifecycle and no status comes
\* up that the API does not know.
THEOREM TypeCorrect == Spec => []TypeOK
<1>1. IInv => TypeOK
    BY DEF IInv
<1>. QED
    BY <1>1, Invariant, PTL

\* No seed key is on two runs and no input has more runs than seeds, however
\* often the script dies in between, if the earlier runs were no more than the
\* seeds of their input (LegacyAssumption): a run beyond them would later be
\* given a key that is taken (demo_seed.py:183-187).
THEOREM SeedsRunOnce == Spec => []OneRunPerSeed
<1> SUFFICES ASSUME IInv
             PROVE  OneRunPerSeed
    BY Invariant, PTL
<1>1. \A i, j \in DOMAIN runs : runs[i].key = runs[j].key /\ runs[i].key # NoKey => i = j
    BY DEF IInv, RunsOK, Fresh, Seeded
<1>2. ASSUME NEW input \in Inputs
      PROVE  Cardinality({i \in DOMAIN runs : runs[i].input = input}) <= Cardinality(SeedsOf(input))
    <2> DEFINE I == {i \in DOMAIN runs : runs[i].input = input}
               S == SeedsOf(input)
    <2>1. CASE Fresh
        <3>1. I = Keyless(input)
            BY <2>1 DEF Fresh, Keyless
        <3>. QED
            BY <2>1, <3>1 DEF Fresh
    <2>2. CASE Seeded
        <3> DEFINE f == [i \in I |-> CHOOSE n \in DOMAIN RunSeeds : RunFor(i, n)]
        <3>1. ASSUME NEW i \in I
              PROVE  f[i] \in S /\ runs[i].key = RunSeeds[f[i]].key
            <4>1. f[i] \in DOMAIN RunSeeds /\ RunFor(i, f[i])
                BY <2>2 DEF Seeded
            <4>. QED
                BY <4>1 DEF RunFor, SeedsOf
        <3>2. f \in [I -> S]
            BY <3>1
        <3>3. ASSUME NEW i \in I, NEW j \in I, f[i] = f[j]
              PROVE  i = j
            <4> HIDE DEF f
            <4>1. runs[i].key = runs[j].key
                BY <3>1, <3>3
            <4>. QED
                BY <2>2, <4>1 DEF Seeded
        <3>4. f \in Injection(I, S)
            BY <3>2, <3>3 DEF Injection, IsInjective
        <3>. QED
            BY <3>4, FS_Injection, FiniteSeeds
    <2>. QED
        BY <2>1, <2>2 DEF IInv, RunsOK
<1>. QED
    BY <1>1, <1>2 DEF OneRunPerSeed

\* The deployment history is always the manifest's up to some step.
THEOREM HistoryIsManifest == Spec => []HistoryFollowsManifest
<1>1. IInv => HistoryFollowsManifest
    BY DEF IInv
<1>. QED
    BY <1>1, Invariant, PTL

\* When the script says that it is done, the manifest is in the database.
THEOREM DoneMeansComplete == Spec => []DoneIsComplete
<1> SUFFICES ASSUME IInv, script.pc = "done"
             PROVE  Complete
    <2>1. IInv => DoneIsComplete
        BY DEF DoneIsComplete
    <2>. QED
        BY <2>1, Invariant, PTL
<1>1. \A v \in Versions : versions[v] # "ABSENT"
    BY DEF IInv, Progress, VersionsDone
<1>2. ASSUME NEW s \in Elements(RunSeeds)
      PROVE  Cardinality({i \in DOMAIN runs :
                 runs[i].key = s.key /\ runs[i].approval \in Expected(s.review)}) = 1
    <2>1. PICK n \in DOMAIN RunSeeds : s = RunSeeds[n]
        BY DEF Elements
    <2>2. Seeded /\ RunDone(s)
        BY <2>1 DEF IInv, RunsOK, Fresh, Progress, RunsDone
    <2>3. PICK i \in DOMAIN runs :
              runs[i].key = s.key /\ (s.review \in Decisions => runs[i].approval \in Decisions)
        BY <2>2 DEF RunDone
    <2>4. PICK m \in DOMAIN RunSeeds : RunFor(i, m)
        BY <2>2 DEF Seeded
    <2>5. s.review = "none" => runs[i].approval = "none"
        BY <2>1, <2>3, <2>4, ConstantsAssumption DEF RunFor
    <2>6. runs[i].approval \in {"none", "PENDING"} \cup Decisions
        <3>1. runs[i] \in Run
            BY DEF IInv, TypeOK
        <3>. QED
            BY <3>1 DEF Run
    <2>7. s.review \in Reviews
        BY <2>1, Seeds
    <2>8. runs[i].approval \in Expected(s.review)
        BY <2>3, <2>5, <2>6, <2>7 DEF Expected, Reviews, Decisions
    <2>9. {j \in DOMAIN runs : runs[j].key = s.key /\ runs[j].approval \in Expected(s.review)} = {i}
        BY <2>2, <2>3, <2>8 DEF Seeded
    <2>. QED
        BY <2>9, FS_Singleton
<1>3. ASSUME NEW v \in Elements(EvaluationSeeds)
      PROVE  Cardinality({i \in DOMAIN evaluations : evaluations[i].version = v}) = 1
    <2>1. PICK i \in DOMAIN evaluations : evaluations[i].version = v
        BY DEF IInv, Progress, EvaluationsDone, Elements, Evaluated
    <2>2. {j \in DOMAIN evaluations : evaluations[j].version = v} = {i}
        BY <2>1 DEF IInv, EvaluationsOK
    <2>. QED
        BY <2>2, FS_Singleton
<1>4. events = Planned
    <2>1. /\ DOMAIN events = DOMAIN Planned /\ events = [i \in DOMAIN events |-> events[i]]
          /\ Planned = [i \in DOMAIN Planned |-> Planned[i]]
        BY Lists DEF IInv, Progress, EventsDone, TypeOK, Planned
    <2>2. \A i \in DOMAIN events : events[i] = Planned[i]
        BY DEF IInv, HistoryFollowsManifest
    <2>. QED
        BY <2>1, <2>2
<1>. QED
    BY <1>1, <1>2, <1>3, <1>4 DEF Complete

\* What a complete database means for the script: it finds every row.
LEMMA CompleteIsFound ==
    ASSUME IInv, Complete
    PROVE  /\ Reconciled = runs
           /\ \A n \in DOMAIN RunSeeds :
                 /\ HasRun(RunSeeds[n].key)
                 /\ RunSeeds[n].review \in Decisions =>
                       \A i \in DOMAIN runs :
                           runs[i].key = RunSeeds[n].key => runs[i].approval \in Decisions
           /\ \A v \in Elements(EvaluationSeeds) : Evaluated(v)
           /\ Len(events) = Len(DeploymentSeeds)
<1>1. ASSUME NEW n \in DOMAIN RunSeeds
      PROVE  \E i \in DOMAIN runs : /\ runs[i].key = RunSeeds[n].key
                                    /\ runs[i].approval \in Expected(RunSeeds[n].review)
    <2> DEFINE I == {i \in DOMAIN runs :
                        /\ runs[i].key = RunSeeds[n].key
                        /\ runs[i].approval \in Expected(RunSeeds[n].review)}
    <2>1. Cardinality(I) = 1
        BY DEF Complete, Elements
    <2>2. I # {}
        BY <2>1, FS_EmptySet
    <2>. QED
        BY <2>2
<1>2. Seeded
    <2>1. 1 \in DOMAIN RunSeeds
        BY Lists
    <2>2. ~Fresh
        BY <1>1, <2>1, Seeds, ConstantsAssumption DEF Fresh
    <2>. QED
        BY <2>2 DEF IInv, RunsOK
<1>3. Reconciled = runs
    BY <1>2, ReconciledSeeded DEF IInv
<1>4. ASSUME NEW n \in DOMAIN RunSeeds
      PROVE  /\ HasRun(RunSeeds[n].key)
             /\ RunSeeds[n].review \in Decisions =>
                   \A i \in DOMAIN runs :
                       runs[i].key = RunSeeds[n].key => runs[i].approval \in Decisions
    <2>1. PICK i \in DOMAIN runs : /\ runs[i].key = RunSeeds[n].key
                                   /\ runs[i].approval \in Expected(RunSeeds[n].review)
        BY <1>1
    <2>2. RunSeeds[n].review \in Decisions => runs[i].approval \in Decisions
        BY <2>1 DEF Expected, Decisions
    <2>. QED
        BY <1>2, <2>1, <2>2 DEF HasRun, Seeded
<1>5. ASSUME NEW v \in Elements(EvaluationSeeds)
      PROVE  Evaluated(v)
    <2> DEFINE I == {i \in DOMAIN evaluations : evaluations[i].version = v}
    <2>1. I # {}
        BY FS_EmptySet DEF Complete
    <2>. QED
        BY <2>1 DEF Evaluated
<1>6. Len(events) = Len(DeploymentSeeds)
    BY Lists DEF Complete, Planned
<1>. QED
    BY <1>3, <1>4, <1>5, <1>6

\* Once the manifest is in the database, no step of the script adds a row, gives a
\* key, decides a request or deploys anything: it only mends an evaluation
\* (demo_seed.py:484-501).
THEOREM SeedingAgainOnlyMends == Spec => SeedingAgainAddsNothing
<1> DEFINE OnlyMends ==
        /\ UNCHANGED <<versions, runs, events>>
        /\ DOMAIN evaluations' = DOMAIN evaluations
        /\ \A i \in DOMAIN evaluations : MendedAtMost(i)
<1>1. UNCHANGED rows => OnlyMends
    BY DEF rows, MendedAtMost
<1>2. ASSUME IInv, Complete, Next, script' # script
      PROVE  OnlyMends
    <2>1. /\ TypeOK /\ ScriptOK /\ RunsOK /\ RunsDone /\ EvaluationsOK /\ EventsDone
          /\ HistoryFollowsManifest /\ LifecyclesOK
        BY <1>2 DEF IInv, Progress
    <2>2. CASE Begin \/ FindApproval \/ Crash
        BY <1>1, <2>2 DEF Begin, FindApproval, Crash
    <2>3. CASE EnsureVersion
        BY <1>1, <1>2, <2>1, <2>3, EnsuredVersion DEF EnsureVersion, Complete, rows
    <2>4. CASE Normalize
        <3>1. UNCHANGED <<versions, runs, events>> /\ evaluations' = Mended
            BY <1>2, <2>4, CompleteIsFound DEF Normalize, NormalizeTo
        <3>. QED
            BY <2>1, <3>1, MendedType DEF MendedAtMost
    <2>5. CASE EnsureRun
        <3>1. HasRun(RunSeeds[script.next].key)
            BY <1>2, <2>1, <2>5, CompleteIsFound, Positions DEF EnsureRun
        <3>. QED
            BY <1>1, <2>5, <3>1 DEF EnsureRun, rows
    <2>6. CASE Review
        <3>1. PICK i \in DOMAIN runs :
                  /\ runs[i].key = RunSeeds[script.next].key
                  /\ runs[i].approval = "PENDING" \/ UNCHANGED runs
            BY <2>1, <2>6, Reviewed
        <3>2. script.next \in DOMAIN RunSeeds /\ RunSeeds[script.next].review \in Decisions
            BY <2>1, <2>6, Reviewed
        <3>3. runs[i].approval \in Decisions
            BY <1>2, <3>1, <3>2, CompleteIsFound
        <3>. QED
            BY <1>1, <2>6, <3>1, <3>3 DEF Review, rows, Decisions
    <2>7. CASE EnsureEvaluation
        <3>1. Evaluated(EvaluationSeeds[script.next])
            BY <1>2, <2>1, <2>7, CompleteIsFound, Positions DEF EnsureEvaluation, Elements
        <3>. QED
            BY <1>1, <2>7, <3>1 DEF EnsureEvaluation, rows
    <2>8. CASE EnsureDeployment
        <3>1. script.next \in DOMAIN DeploymentSeeds /\ Len(events) = Len(DeploymentSeeds)
            BY <1>2, <2>1, <2>8, CompleteIsFound, DeploymentEffect
        <3>2. script.next # Len(events) + 1
            BY <3>1, Lists
        <3>. QED
            BY <1>1, <2>1, <2>8, <3>2, DeploymentEffect DEF Taken, rows
    <2>9. CASE BreakRun
        BY <1>2, <2>1, <2>9, CompleteIsFound, Positions DEF BreakRun
    <2>10. ASSUME NEW status, NEW results, BreakEvaluation(status, results)
           PROVE  FALSE
        BY <1>2, <2>1, <2>10, CompleteIsFound, Positions DEF BreakEvaluation, Elements
    <2>11. ASSUME NEW i, AskLate(i) \/ EvaluateLate(i) \/ \E decision \in Decisions : Decide(i, decision)
           PROVE  FALSE
        BY <1>2, <2>11 DEF AskLate, EvaluateLate, Decide
    <2>. QED
        BY <1>2, <2>2, <2>3, <2>4, <2>5, <2>6, <2>7, <2>8, <2>9, <2>10, <2>11
           DEF Next, Step, Decisions
<1>3. IInv /\ [Next]_vars => [Complete /\ script' # script => OnlyMends]_vars
    BY <1>2
<1>. QED
    BY <1>3, Invariant, PTL DEF Spec, SeedingAgainAddsNothing

-----------------------------------------------------------------------------
(* The script gives up only for a reason: the part of SeedCompletes that   *)
(* is a safety property.                                                   *)

\* Of the deprecations that the script will come to, it has fetched those that
\* have been made: it alone makes them, and starts over when it breaks off.
DeprecationsSeen ==
    /\ script.pc = "versions" =>
          \A m \in 1..(script.next - 1) :
              Retired(Len(events), VersionSeeds[m]) =>
                  script.lifecycles[VersionSeeds[m]] = "DEPRECATED"
    /\ script.pc \in {"normalize", "runs", "approval", "review", "evaluations"} =>
          \A v \in Versions : Retired(Len(events), v) => script.lifecycles[v] = "DEPRECATED"
    /\ script.pc = "deployments" =>
          \A m \in script.next..Len(events) :
              ~Puts(m) => script.lifecycles[DeploymentSeeds[m].target] = "DEPRECATED"

\* A request that the script has found waiting is not withdrawn.
Asked ==
    script.pc = "review" =>
        \A i \in DOMAIN runs : runs[i].key = RunSeeds[script.next].key => runs[i].approval # "none"

\* What the script itself does next.
LEMMA StepGoes ==
    ASSUME IInv, NEW l \in {"runs", "approval", "review", "evaluations"}, script.pc = l, Step
    PROVE  /\ UNCHANGED events /\ script'.lifecycles = script.lifecycles
           /\ l \in {"runs", "approval", "review"} =>
                 script'.pc \in {"idle", "runs", "approval", "review", "evaluations"}
           /\ l = "evaluations" =>
                 \/ script'.pc = "evaluations"
                 \/ script'.pc = "deployments" /\ script'.next = 1
<1>1. TypeOK /\ script.next \in Nat
    BY DEF IInv, TypeOK, Script
<1>2. /\ NextRun => script'.lifecycles = script.lifecycles /\ script'.pc \in {"runs", "evaluations"}
      /\ GiveUp => script'.lifecycles = script.lifecycles /\ script'.pc = "idle"
      /\ \A k \in {"approval", "review"} :
            Goto(k, script.next) => script'.lifecycles = script.lifecycles /\ script'.pc = k
    BY <1>1, AdvancesRuns, GivesUp, Goes DEF Pcs
<1>3. CASE EnsureRun
    BY <1>2, <1>3 DEF EnsureRun, AfterFound, AfterRun
<1>4. CASE FindApproval
    BY <1>2, <1>4 DEF FindApproval, rows
<1>5. CASE Review
    BY <1>2, <1>5 DEF Review
<1>6. CASE EnsureEvaluation
    BY <1>1, <1>6, AdvancesEvaluations DEF EnsureEvaluation
<1>7. EnsureRun \/ FindApproval \/ Review \/ EnsureEvaluation
    BY DEF Step, Begin, EnsureVersion, Normalize, EnsureDeployment
<1>. QED
    BY <1>3, <1>4, <1>5, <1>6, <1>7 DEF EnsureRun, FindApproval, Review, EnsureEvaluation

LEMMA DeprecationsSeenStep ==
    ASSUME IInv, DeprecationsSeen, [Next]_vars
    PROVE  DeprecationsSeen'
<1>1. /\ TypeOK /\ ScriptOK /\ EvaluationsOK /\ HistoryFollowsManifest /\ LifecyclesOK /\ EventsDone
      /\ script \in Script /\ Len(events) \in Nat
    BY Recorded DEF IInv, Progress, TypeOK
<1>2. CASE script'.pc = "idle"
    BY <1>2 DEF DeprecationsSeen
<1>3. CASE UNCHANGED <<script, events>>
    BY <1>3 DEF DeprecationsSeen, Retired
<1>4. CASE Begin
    <2>1. script'.pc = "versions" /\ script'.next = 1
        BY <1>1, <1>4, Goes DEF Begin, Pcs
    <2>. QED
        BY <2>1 DEF DeprecationsSeen
<1>5. CASE EnsureVersion
    <2> DEFINE n == script.next
               v == VersionSeeds[n]
    <2>1. /\ script.pc = "versions" /\ n \in DOMAIN VersionSeeds /\ v \in Versions
          /\ versions'[v] = IF versions[v] = "ABSENT" THEN "DRAFT" ELSE versions[v]
          /\ script'.lifecycles = [script.lifecycles EXCEPT ![v] = versions'[v]]
          /\ \/ n < Len(VersionSeeds) /\ script'.pc = "versions" /\ script'.next = n + 1
             \/ ~(n < Len(VersionSeeds)) /\ script'.pc = "normalize"
          /\ UNCHANGED events
        BY <1>1, <1>5, EnsuredVersion DEF EnsureVersion
    <2>2. n \in 1..Len(VersionSeeds) /\ Len(VersionSeeds) \in Nat
        BY <2>1, Lists
    <2>3. Retired(Len(events), v) => versions'[v] = "DEPRECATED"
        BY <1>1, <2>1 DEF LifecyclesOK
    <2>4. script.lifecycles \in [Versions -> Lifecycle]
        BY <1>1 DEF Script
    <2>5. ASSUME NEW m \in 1..n, Retired(Len(events), VersionSeeds[m])
          PROVE  script'.lifecycles[VersionSeeds[m]] = "DEPRECATED"
        <3>1. VersionSeeds[m] \in Versions
            BY <2>2, Lists, Seeds
        <3>2. CASE VersionSeeds[m] = v
            BY <2>1, <2>3, <2>4, <2>5, <3>2
        <3>3. CASE VersionSeeds[m] # v
            <4>1. m \in 1..(n - 1)
                BY <2>2, <3>3
            <4>2. script.lifecycles[VersionSeeds[m]] = "DEPRECATED"
                BY <2>1, <2>5, <4>1 DEF DeprecationsSeen
            <4>. QED
                BY <2>1, <2>4, <3>1, <3>3, <4>2
        <3>. QED
            BY <3>2, <3>3
    <2>6. CASE n < Len(VersionSeeds) /\ script'.pc = "versions" /\ script'.next = n + 1
        BY <2>1, <2>2, <2>5, <2>6 DEF DeprecationsSeen, Retired
    <2>7. CASE ~(n < Len(VersionSeeds)) /\ script'.pc = "normalize"
        <3>1. n = Len(VersionSeeds)
            BY <2>2, <2>7
        <3>2. \A w \in Versions : \E m \in 1..n : w = VersionSeeds[m]
            BY <3>1, Lists DEF Versions, Elements
        <3>3. \A w \in Versions : Retired(Len(events), w) => script'.lifecycles[w] = "DEPRECATED"
            BY <2>5, <3>2
        <3>. QED
            BY <2>1, <2>7, <3>3 DEF DeprecationsSeen, Retired
    <2>. QED
        BY <2>1, <2>6, <2>7
<1>6. CASE Normalize
    <2>1. /\ UNCHANGED events /\ script'.lifecycles = script.lifecycles
          /\ \/ script.pc = "normalize" /\ script'.pc = "runs"
             \/ script'.pc = "done"
        BY <1>1, <1>6, Goes DEF Normalize, NormalizeTo, Pcs
    <2>. QED
        BY <2>1 DEF DeprecationsSeen, Retired
<1>7. ASSUME /\ script.pc \in {"runs", "approval", "review", "evaluations"}
             /\ UNCHANGED events /\ script'.lifecycles = script.lifecycles
             /\ \/ script'.pc \in {"idle", "runs", "approval", "review", "evaluations"}
                \/ script'.pc = "deployments" /\ script'.next = 1
      PROVE  DeprecationsSeen'
    <2>1. \A v \in Versions : Retired(Len(events), v) => script.lifecycles[v] = "DEPRECATED"
        BY <1>7 DEF DeprecationsSeen
    <2>2. ASSUME NEW m \in 1..Len(events), ~Puts(m)
          PROVE  script.lifecycles[DeploymentSeeds[m].target] = "DEPRECATED"
        <3>1. m \in DOMAIN DeploymentSeeds
            BY <1>1, Recorded
        <3>2. DeploymentSeeds[m].action = "DEPRECATE" /\ DeploymentSeeds[m].target \in Versions
            BY <2>2, <3>1, Seeds DEF Puts, Actions
        <3>3. Retired(Len(events), DeploymentSeeds[m].target)
            BY <3>2 DEF Retired, Retires
        <3>. QED
            BY <2>1, <3>2, <3>3
    <2>. QED
        BY <1>7, <2>1, <2>2 DEF DeprecationsSeen, Retired
<1>8. CASE EnsureDeployment
    <2> DEFINE n == script.next
    <2>1. /\ script.pc = "deployments" /\ n \in DOMAIN DeploymentSeeds
          /\ \/ UNCHANGED events /\ NextDeployment
             \/ GiveUp
             \/ Taken(n) /\ NextDeployment
        BY <1>1, <1>8, DeploymentEffect
    <2>2. n \in Nat /\ Len(events') \in Nat
        BY <2>1, TypeStep, Lists DEF IInv, Progress, TypeOK
    <2>3. CASE GiveUp
        BY <1>1, <1>2, <2>3, GivesUp
    <2>4. CASE NextDeployment
        <3>1. /\ script'.lifecycles = script.lifecycles
              /\ \/ script'.pc = "deployments" /\ script'.next = n + 1
                 \/ script'.pc = "finish"
            BY <1>1, <2>4, AdvancesDeployments
        <3>2. CASE UNCHANGED events
            BY <2>1, <2>2, <3>1, <3>2 DEF DeprecationsSeen
        <3>3. CASE Taken(n)
            <4>1. Len(events') = n
                BY <1>1, <2>1, <3>3, TakenLeaves
            <4>2. (n + 1)..n = {}
                BY <2>2
            <4>. QED
                BY <3>1, <4>1, <4>2 DEF DeprecationsSeen
        <3>. QED
            BY <1>2, <1>1, <2>1, <3>2, <3>3, GivesUp
    <2>. QED
        BY <2>1, <2>3, <2>4
<1>9. CASE EnsureRun \/ FindApproval \/ Review \/ EnsureEvaluation
    BY <1>7, <1>9, StepGoes
       DEF Step, EnsureRun, FindApproval, Review, EnsureEvaluation
<1>10. ASSUME NEW status \in {"RUNNING", "FAILED"}, NEW results \in BOOLEAN,
              BreakEvaluation(status, results)
       PROVE  DeprecationsSeen'
    <2>1. CASE GiveUp
        BY <1>1, <1>2, <2>1, GivesUp
    <2>2. CASE NextOf(EvaluationSeeds, "evaluations", "deployments")
        BY <1>1, <1>7, <1>10, <2>2, AdvancesEvaluations DEF BreakEvaluation
    <2>. QED
        BY <1>10, <2>1, <2>2 DEF BreakEvaluation
<1>11. CASE Crash \/ BreakRun
    BY <1>1, <1>2, <1>11, GivesUp DEF Crash, BreakRun
<1>12. ASSUME NEW i, AskLate(i) \/ EvaluateLate(i) \/ \E decision \in Decisions : Decide(i, decision)
       PROVE  DeprecationsSeen'
    BY <1>3, <1>12 DEF AskLate, EvaluateLate, Decide
<1>13. CASE UNCHANGED vars
    BY <1>3, <1>13 DEF vars, rows
<1>. QED
    BY <1>4, <1>5, <1>6, <1>8, <1>9, <1>10, <1>11, <1>12, <1>13 DEF Next, Step, Decisions

LEMMA AskedStep ==
    ASSUME IInv, Asked, [Next]_vars
    PROVE  Asked'
<1>1. TypeOK /\ ScriptOK /\ RunsOK /\ RunsDone /\ script \in Script /\ script.next \in Nat
    BY Positions DEF IInv, Progress
<1>2. CASE script'.pc # "review"
    BY <1>2 DEF Asked
<1>3. CASE UNCHANGED <<script, runs>>
    BY <1>3 DEF Asked
<1>4. ASSUME NEW i \in DOMAIN runs, NEW a \in {"PENDING"} \cup Decisions,
             runs' = [runs EXCEPT ![i].approval = a], UNCHANGED script, script.pc = "review"
      PROVE  Asked'
    <2>1. /\ DOMAIN runs' = DOMAIN runs
          /\ \A j \in DOMAIN runs :
                /\ runs'[j].key = runs[j].key
                /\ runs'[j].approval = IF j = i THEN a ELSE runs[j].approval
        BY <1>1, <1>4, Updated
    <2>. QED
        BY <1>4, <2>1 DEF Asked, Decisions
<1>5. CASE FindApproval
    <2>1. script'.pc = "review" => /\ runs[RunOf(RunSeeds[script.next].key)].approval = "PENDING"
                                   /\ script'.next = script.next
        BY <1>1, <1>5, AdvancesRuns, GivesUp, Goes DEF FindApproval, Pcs
    <2>2. Seeded /\ HasRun(RunSeeds[script.next].key)
        BY <1>1, <1>5 DEF FindApproval, RunsOK, Fresh, RunsDone
    <2>3. \A i \in DOMAIN runs : runs[i].key = RunSeeds[script.next].key => i = RunOf(RunSeeds[script.next].key)
        BY <1>1, <2>2, RunOfSeed
    <2>. QED
        BY <1>5, <2>1, <2>3 DEF FindApproval, Asked, rows
<1>6. CASE Begin \/ Normalize
    BY <1>1, <1>2, <1>6, Goes DEF Begin, Normalize, NormalizeTo, Pcs
<1>7. CASE EnsureVersion
    BY <1>1, <1>2, <1>7, EnsuredVersion
<1>8. CASE EnsureRun
    BY <1>1, <1>2, <1>8, AdvancesRuns, Goes DEF EnsureRun, AfterFound, AfterRun, Pcs
<1>9. CASE Review
    BY <1>1, <1>2, <1>9, AdvancesRuns, GivesUp DEF Review
<1>10. CASE EnsureEvaluation
    BY <1>1, <1>2, <1>10, AdvancesEvaluations DEF EnsureEvaluation
<1>11. CASE EnsureDeployment
    BY <1>1, <1>2, <1>11, GivesUp, AdvancesDeployments DEF EnsureDeployment
<1>12. ASSUME NEW status, NEW results, BreakEvaluation(status, results)
       PROVE  Asked'
    BY <1>1, <1>2, <1>12, GivesUp, AdvancesEvaluations DEF BreakEvaluation
<1>13. CASE Crash \/ BreakRun
    BY <1>1, <1>2, <1>13, GivesUp DEF Crash, BreakRun
<1>14. ASSUME NEW i \in DOMAIN runs, AskLate(i) \/ \E decision \in Decisions : Decide(i, decision)
       PROVE  Asked'
    BY <1>2, <1>4, <1>14 DEF AskLate, Decide
<1>15. ASSUME NEW i \in DOMAIN evaluations, EvaluateLate(i) PROVE Asked'
    BY <1>3, <1>15 DEF EvaluateLate
<1>16. CASE UNCHANGED vars
    BY <1>3, <1>16 DEF vars, rows
<1>. QED
    BY <1>5, <1>6, <1>7, <1>8, <1>9, <1>10, <1>11, <1>12, <1>13, <1>14, <1>15, <1>16
       DEF Next, Step, Decisions

\* What has been done is found: nothing that the script did is in its way.
LEMMA DoneIsThere ==
    ASSUME IInv, DeprecationsSeen, script.pc = "deployments", script.next <= Len(events)
    PROVE  LET d == DeploymentSeeds[script.next] IN Exists(d) \/ SeenDone(d)
<1> DEFINE n == script.next
<1>1. TypeOK /\ ScriptOK /\ HistoryFollowsManifest /\ Len(events) \in Nat
    BY Recorded DEF IInv, Progress
<1>2. n \in DOMAIN DeploymentSeeds /\ n \in 1..Len(events) /\ n \in n..Len(events)
    BY <1>1, Positions, Lists
<1>3. CASE Puts(n)
    BY <1>1, <1>2, <1>3, Recorded DEF Exists
<1>4. CASE ~Puts(n)
    <2>1. DeploymentSeeds[n].action = "DEPRECATE"
        BY <1>2, <1>4, Seeds DEF Puts, Actions
    <2>2. script.lifecycles[DeploymentSeeds[n].target] = "DEPRECATED"
        BY <1>2, <1>4 DEF DeprecationsSeen
    <2>. QED
        BY <2>1, <2>2 DEF SeenDone
<1>. QED
    BY <1>3, <1>4

\* What is due is accepted, but for a promotion whose evaluation has not passed.
LEMMA DueIsAccepted ==
    ASSUME IInv, script.pc = "deployments", script.next = Len(events) + 1,
           ~Accepted(DeploymentSeeds[script.next])
    PROVE  NotPassed
<1> DEFINE n == script.next
           d == DeploymentSeeds[n]
<1>1. /\ TypeOK /\ ScriptOK /\ EvaluationsOK /\ EvaluationsDone /\ VersionsDone
      /\ HistoryFollowsManifest /\ LifecyclesOK /\ Len(events) \in Nat
    BY Recorded DEF IInv, Progress
<1>2. /\ n \in DOMAIN DeploymentSeeds /\ n \in Nat /\ n - 1 = Len(events)
      /\ d.target \in Versions /\ d.action \in Actions
    BY <1>1, Positions, Seeds
<1>3. \A m \in 1..(n - 1) : ~Repeats(n, m)
    BY <1>2, ManifestAssumption
<1>4. /\ d.action = "PROMOTE" =>
            d.target \in Elements(EvaluationSeeds) /\ \A m \in 1..(n - 1) : ~Retires(m, d.target)
      /\ d.action = "DEPRECATE" =>
            \A m \in 1..(n - 1) : Puts(m) /\ DeploymentSeeds[m].target = d.target =>
                \E j \in (m + 1)..(n - 1) : PutsFor(j, d.target)
    BY <1>2, AcceptanceAssumption
<1>5. CASE d.action = "PROMOTE"
    <2>1. versions[d.target] # "DEPRECATED"
        BY <1>1, <1>2, <1>4, <1>5 DEF LifecyclesOK, Retired
    <2>2. \A m \in 1..(n - 1) : Puts(m) => DeploymentSeeds[m].target # d.target
        BY <1>3, <1>5 DEF Repeats
    <2>3. Current(d) # d.target
        <3>1. Current(d) = d.source
            BY <1>1, <1>2, <1>5, CurrentIsSource DEF Puts
        <3>2. d.source # d.target
            <4>1. ReplacesLast(n)
                BY <1>2, <1>5, ManifestAssumption DEF Puts
            <4>2. CASE d.source = NoVersion
                BY <1>2, <4>2, ConstantsAssumption
            <4>3. CASE d.source # NoVersion
                BY <2>2, <4>1, <4>3 DEF ReplacesLast, PutsFor
            <4>. QED
                BY <4>2, <4>3
        <3>. QED
            BY <3>1, <3>2
    <2>4. ~GateOpen(d.target)
        BY <1>5, <2>1, <2>3 DEF Accepted
    <2>5. ASSUME NEW i \in DOMAIN evaluations, evaluations[i].version = d.target,
                 evaluations[i].status = "PASSED"
          PROVE  FALSE
        <3> DEFINE I == {j \in DOMAIN evaluations :
                            evaluations[j].version = d.target /\ evaluations[j].status # "RUNNING"}
        <3>1. I = {i}
            BY <1>1, <2>5 DEF EvaluationsOK
        <3>2. i \in Nat
            BY <1>1 DEF TypeOK
        <3>3. Latest(I) = i
            BY <3>1, <3>2 DEF Latest
        <3>. QED
            BY <2>4, <2>5, <3>1, <3>3 DEF GateOpen
    <2>. QED
        BY <1>5, <2>5 DEF NotPassed
<1>6. CASE d.action = "ROLLBACK"
    <2>1. Puts(n) /\ Current(d) = d.source /\ Restorable(d) # {}
        BY <1>1, <1>2, <1>6, CurrentIsSource, RestoredIsTarget DEF Puts
    <2>2. PICK m \in 1..(n - 1) : DeploymentSeeds[m].action = "PROMOTE" /\ DeploymentSeeds[m].target = d.target
        BY <1>2, <1>6, ManifestAssumption DEF RestoresNewest
    <2>3. PutsFor(m, d.target)
        BY <2>2 DEF PutsFor, Puts, SameAgent
    <2>4. PICK k \in 1..(n - 1) : DeploymentSeeds[k].target = d.source
        BY <1>2, <2>1, <2>3, ManifestAssumption DEF ReplacesLast
    <2>5. d.source \in Versions
        BY <1>1, <1>2, <2>4, Recorded, Seeds
    <2>6. d.source # NoVersion
        BY <2>5, ConstantsAssumption
    <2>. QED
        BY <1>6, <2>1, <2>6 DEF Accepted
<1>7. CASE d.action = "DEPRECATE"
    <2>1. versions[d.target] # "ABSENT"
        BY <1>1, <1>2 DEF VersionsDone
    <2>2. versions[d.target] # "PRODUCTION"
        BY <1>1, <1>2, <1>4, <1>7 DEF LifecyclesOK, InCharge
    <2>3. versions[d.target] # "DEPRECATED"
        <3>1. \A m \in 1..(n - 1) : ~Retires(m, d.target)
            BY <1>3, <1>7 DEF Repeats, Retires
        <3>. QED
            BY <1>1, <1>2, <3>1 DEF LifecyclesOK, Retired
    <2>4. versions[d.target] \in Lifecycle
        BY <1>1, <1>2 DEF TypeOK
    <2>. QED
        BY <1>7, <2>1, <2>2, <2>3, <2>4 DEF Accepted, Lifecycle
<1>. QED
    BY <1>2, <1>5, <1>6, <1>7 DEF Actions

\* The script gives up by itself only at a run that never asked for its review,
\* when somebody decides a request before it, or at the promotion of a version
\* that has not passed: no refusal of the API is of its own making
\* (seed_demo.py:249-343), for any manifest that can be carried out.
THEOREM SeedGivesUpForAReason == Spec => GivesUpForAReason
<1>1. Init => DeprecationsSeen /\ Asked
    BY DEF Init, DeprecationsSeen, Asked
<1>2. IInv /\ DeprecationsSeen /\ Asked /\ [Next]_vars => DeprecationsSeen' /\ Asked'
    BY DeprecationsSeenStep, AskedStep
<1>3. ASSUME IInv, DeprecationsSeen, Asked, Step, script'.pc = "idle"
      PROVE  AtUnasked \/ Overtaken \/ NotPassed
    <2>1. /\ TypeOK /\ ScriptOK /\ RunsOK /\ RunsDone /\ EventsDone /\ Len(events) \in Nat
        BY <1>3, Recorded DEF IInv, Progress
    <2>2. /\ script \in Script
          /\ NextRun => script'.pc # "idle"
          /\ \A k \in Pcs : Goto(k, script.next) => script'.pc = k
        BY <2>1, AdvancesRuns, Goes, Positions
    <2>3. ~Begin /\ ~EnsureVersion /\ ~Normalize /\ ~EnsureEvaluation
        <3>1. ~Begin
            BY <1>3, <2>1, Goes DEF Begin, Pcs
        <3>2. ~EnsureVersion
            BY <1>3, <2>1, EnsuredVersion
        <3>3. ~Normalize
            BY <1>3, <2>1, Goes DEF Normalize, NormalizeTo, Pcs
        <3>4. ~EnsureEvaluation
            BY <1>3, <2>1, AdvancesEvaluations DEF EnsureEvaluation
        <3>. QED
            BY <3>1, <3>2, <3>3, <3>4
    <2>4. ~EnsureRun
        BY <1>3, <2>2 DEF EnsureRun, AfterFound, AfterRun, Pcs
    <2>5. CASE FindApproval
        <3> DEFINE s == RunSeeds[script.next]
                   i == RunOf(s.key)
        <3>1. script.pc = "approval" /\ runs[i].approval = "none"
            BY <1>3, <2>2, <2>5 DEF FindApproval, Pcs
        <3>2. Seeded /\ HasRun(s.key) /\ s.review \in Decisions /\ script.next \in DOMAIN RunSeeds
            BY <2>1, <3>1, Positions DEF RunsOK, Fresh, RunsDone, ScriptOK
        <3>3. i \in DOMAIN runs /\ runs[i].key = s.key
            BY <2>1, <3>2, RunOfSeed
        <3>. QED
            BY <3>1, <3>3 DEF AtUnasked, Unasked
    <2>6. CASE Review
        <3> DEFINE i == RunOf(RunSeeds[script.next].key)
        <3>1. script.pc = "review" /\ runs[i].approval # "PENDING"
            BY <1>3, <2>2, <2>6 DEF Review
        <3>2. Seeded /\ HasRun(RunSeeds[script.next].key)
            BY <2>1, <3>1 DEF RunsOK, Fresh, RunsDone
        <3>3. i \in DOMAIN runs /\ runs[i].key = RunSeeds[script.next].key
            BY <2>1, <3>2, RunOfSeed
        <3>4. runs[i] \in Run /\ runs[i].approval # "none"
            BY <1>3, <2>1, <3>1, <3>3 DEF TypeOK, Asked
        <3>. QED
            BY <3>1, <3>4 DEF Overtaken, Run
    <2>7. CASE EnsureDeployment
        <3> DEFINE d == DeploymentSeeds[script.next]
        <3>1. /\ script.pc = "deployments"
              /\ ~(Exists(d) \/ SeenDone(d)) /\ ~Accepted(d)
            <4>1. ~NextDeployment
                BY <1>3, <2>1, AdvancesDeployments
            <4>. QED
                BY <2>7, <4>1 DEF EnsureDeployment
        <3>2. ~(script.next <= Len(events))
            BY <1>3, <3>1, DoneIsThere
        <3>3. script.next = Len(events) + 1
            BY <2>1, <3>1, <3>2, Positions DEF EventsDone
        <3>. QED
            BY <1>3, <3>1, <3>3, DueIsAccepted
    <2>. QED
        BY <1>3, <2>3, <2>4, <2>5, <2>6, <2>7 DEF Step
<1>4. IInv /\ DeprecationsSeen /\ Asked /\ [Next]_vars =>
        [script'.pc = "idle" /\ Step => AtUnasked \/ Overtaken \/ NotPassed]_vars
    BY <1>3
<1>. QED
    BY <1>1, <1>2, <1>4, Invariant, PTL DEF Spec, GivesUpForAReason
=============================================================================
