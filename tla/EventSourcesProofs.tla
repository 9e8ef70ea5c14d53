------------------------- MODULE EventSourcesProofs -------------------------
(***************************************************************************)
(* The topic tool and the event producers, for any topics, setups and      *)
(* specs, any number of processes of either kind and any number of brokers:*)
(* what the exit codes of both say is true, and what is confirmed is       *)
(* replicated.                                                             *)
(***************************************************************************)
EXTENDS EventSources, FiniteSetTheorems, SequenceTheorems, TLAPS

-----------------------------------------------------------------------------
(* The tool.                                                               *)

SpecIndex == 1..Len(Specs)

(* What the specs are.                                                     *)
LEMMA SpecFacts ==
  /\ Len(Specs) \in Nat
  /\ \A i \in SpecIndex : Specs[i].name \in TopicName /\ Specs[i].setup \in Setup
  /\ Setup \subseteq Topic /\ Missing \notin Topic
<1>1. Len(Specs) \in Nat /\ \A i \in SpecIndex : Specs[i] \in [name: TopicName, setup: Setup]
  BY ToolAssumption, LenProperties, ElementOfSeq DEF SpecIndex
<1> QED
  BY <1>1, ToolAssumption

\* A topic is as topics.yaml says.
Conforms(i) == topics[Specs[i].name] = Specs[i].setup

\* What a listing tells of a topic for good, whoever changes it in the meantime.
StillAsListed(n, t) ==
  t # Missing =>
    /\ topics[n] # Missing
    /\ topics[n].replicas = t.replicas
    /\ \/ topics[n].partitions = t.partitions
       \/ \E i \in SpecIndex : Specs[i].name = n /\ topics[n].partitions = Specs[i].setup.partitions

ListingsHold ==
  \A r \in Tool, n \in TopicName : StillAsListed(n, listing[r][n])

\* A process has dealt with the topics before the one in hand ...
DoneConforms ==
  \A r \in Tool :
    stage[r] \in Working \cup {"succeeded"} => \A i \in SpecIndex : i < at[r] => Conforms(i)

\* ... and with this one as far as it has got.
HandConforms ==
  \A r \in Tool :
    /\ stage[r] \in {"partitions", "describe", "alter"} =>
         /\ Listed(r) # Missing
         /\ Listed(r).replicas = SpecOf(r).setup.replicas
    /\ stage[r] \in {"describe", "alter"} =>
         Current(r).partitions = SpecOf(r).setup.partitions
    /\ stage[r] = "succeeded" => at[r] = Len(Specs) + 1

ToolInv == ToolTypeOK /\ ListingsHold /\ DoneConforms /\ HandConforms

(* It holds before the tool runs.                                          *)
LEMMA ToolInvInit == ToolInit => ToolInv
  BY SpecFacts
  DEF ToolInit, ToolInv, ToolTypeOK, Stage, Working, Clusters, ListingsHold, StillAsListed,
      DoneConforms, HandConforms

(* A call changes one topic, to something better.                          *)
LEMMA ExecuteResult ==
  ASSUME topics \in Clusters, NEW c \in Call, Execute(c)
  PROVE  /\ Specs[c.spec].name \in TopicName
         /\ topics' = [topics EXCEPT ![Specs[c.spec].name] = Result(c)]
         /\ Result(c) \in Topic
         /\ c.op = "create" => Result(c) = Specs[c.spec].setup
         /\ c.op = "create" => topics[Specs[c.spec].name] = Missing
         /\ c.op # "create" =>
              /\ topics[Specs[c.spec].name] \in Topic
              /\ Result(c).replicas = topics[Specs[c.spec].name].replicas
         /\ c.op = "partitions" =>
              /\ Result(c).partitions = Specs[c.spec].setup.partitions
              /\ topics[Specs[c.spec].name].partitions < Specs[c.spec].setup.partitions
         /\ c.op = "alter" =>
              /\ Result(c).partitions = topics[Specs[c.spec].name].partitions
              /\ Result(c).config = Specs[c.spec].setup.config
<1> DEFINE n == Specs[c.spec].name
           w == Specs[c.spec].setup
           t == topics[n]
<1>1. c.op \in {"create", "partitions", "alter"} /\ c.spec \in SpecIndex
  BY DEF Call, SpecIndex
<1>2. n \in TopicName /\ w \in Topic /\ t \in Topic \cup {Missing}
  BY <1>1, SpecFacts DEF Clusters
<1>3. Allowed(c) /\ topics' = [topics EXCEPT ![n] = Result(c)]
  BY DEF Execute
<1>4. CASE c.op = "create"
  BY <1>2, <1>3, <1>4, SpecFacts DEF Allowed, Result
<1>5. CASE c.op = "partitions"
  <2>1. t # Missing /\ t.partitions < w.partitions
    BY <1>3, <1>5 DEF Allowed
  <2>2. Result(c) = [t EXCEPT !.partitions = w.partitions]
    BY <1>5 DEF Result
  <2> QED
    BY <1>2, <1>3, <1>5, <2>1, <2>2 DEF Topic
<1>6. CASE c.op = "alter"
  <2>1. t # Missing
    BY <1>3, <1>6 DEF Allowed
  <2>2. Result(c) = [t EXCEPT !.config = w.config]
    BY <1>6 DEF Result
  <2> QED
    BY <1>2, <1>3, <1>6, <2>1, <2>2 DEF Topic
<1> QED
  BY <1>1, <1>4, <1>5, <1>6

(* What conforms stays, and so does what a listing has told.               *)
LEMMA ExecuteKeeps ==
  ASSUME topics \in Clusters, NEW c \in Call, Execute(c)
  PROVE  /\ topics' \in Clusters
         /\ \A i \in SpecIndex : Conforms(i) => Conforms(i)'
         /\ \A n \in TopicName, t \in Topic \cup {Missing} :
              StillAsListed(n, t) => StillAsListed(n, t)'
<1>1. topics' \in Clusters
  BY ExecuteResult DEF Clusters
<1>2. c.op \in {"create", "partitions", "alter"} /\ c.spec \in SpecIndex
  BY DEF Call, SpecIndex
<1>3. ASSUME NEW i \in SpecIndex, Conforms(i) PROVE Conforms(i)'
  <2>1. CASE Specs[i].name # Specs[c.spec].name
    BY <1>3, <2>1, ExecuteResult, SpecFacts DEF Conforms, Clusters
  <2>2. CASE Specs[i].name = Specs[c.spec].name
    <3>1. i = c.spec
      BY <1>2, <2>2, ToolAssumption DEF SpecIndex
    <3>2. topics[Specs[i].name] = Specs[i].setup /\ Specs[i].setup \in Topic
          /\ Specs[i].setup # Missing
      BY <1>3, SpecFacts DEF Conforms
    <3>3. c.op = "alter"
      BY <1>2, <3>1, <3>2, ExecuteResult DEF Topic
    <3>4. Result(c).partitions = Specs[i].setup.partitions
          /\ Result(c).replicas = Specs[i].setup.replicas
          /\ Result(c).config = Specs[i].setup.config
      BY <3>1, <3>2, <3>3, ExecuteResult
    <3>5. Result(c) = Specs[i].setup
      BY <3>2, <3>4, ExecuteResult DEF Topic
    <3> QED
      BY <3>1, <3>5, ExecuteResult DEF Conforms, Clusters
  <2> QED BY <2>1, <2>2
<1>4. ASSUME NEW n \in TopicName, NEW t \in Topic \cup {Missing}, StillAsListed(n, t)
      PROVE  StillAsListed(n, t)'
  <2>1. CASE n # Specs[c.spec].name
    BY <1>4, <2>1, ExecuteResult DEF StillAsListed, Clusters
  <2>2. CASE n = Specs[c.spec].name
    <3>1. topics'[n] = Result(c) /\ Result(c) # Missing
      BY <2>2, ExecuteResult, SpecFacts DEF Clusters
    <3>2. CASE t # Missing
      <4>1. c.op # "create" /\ topics[n] # Missing
        BY <1>4, <2>2, <3>2, ExecuteResult DEF StillAsListed
      <4>2. topics'[n].replicas = t.replicas
        BY <1>4, <2>2, <3>1, <3>2, <4>1, ExecuteResult DEF StillAsListed
      <4>3. \/ topics'[n].partitions = Specs[c.spec].setup.partitions
            \/ topics'[n].partitions = topics[n].partitions
        BY <1>2, <2>2, <3>1, <4>1, ExecuteResult
      <4> QED
        BY <1>2, <1>4, <2>2, <3>1, <3>2, <4>2, <4>3 DEF StillAsListed
    <3> QED
      BY <3>2 DEF StillAsListed
  <2> QED BY <2>1, <2>2
<1> QED
  BY <1>1, <1>3, <1>4

\* What a process relies on, whoever else changes the topics.
OwnInv(r) ==
  /\ stage[r] \in Working \cup {"succeeded"} => \A i \in SpecIndex : i < at[r] => Conforms(i)
  /\ stage[r] \in {"partitions", "describe", "alter"} =>
       Listed(r) # Missing /\ Listed(r).replicas = SpecOf(r).setup.replicas
  /\ stage[r] \in {"describe", "alter"} =>
       Current(r).partitions = SpecOf(r).setup.partitions
  /\ stage[r] = "succeeded" => at[r] = Len(Specs) + 1

LEMMA OwnInvs == ListingsHold /\ DoneConforms /\ HandConforms
                   <=> ListingsHold /\ \A r \in Tool : OwnInv(r)
  BY DEF DoneConforms, HandConforms, OwnInv

\* Topics change for the better.
Improves ==
  /\ topics' \in Clusters
  /\ \A i \in SpecIndex : Conforms(i) => Conforms(i)'
  /\ \A n \in TopicName, t \in Topic \cup {Missing} :
       StillAsListed(n, t) => StillAsListed(n, t)'

(* The facts of the topic in hand.                                         *)
LEMMA InHandFacts ==
  ASSUME ToolTypeOK, NEW r \in Tool, stage[r] \in Working
  PROVE  /\ at[r] \in SpecIndex
         /\ SpecOf(r).name \in TopicName /\ SpecOf(r).setup \in Topic
         /\ Listed(r) \in Topic \cup {Missing} /\ Current(r) \in Topic \cup {Missing}
<1>1. at[r] \in SpecIndex
  BY SpecFacts DEF ToolTypeOK, SpecIndex
<1>2. SpecOf(r).name \in TopicName /\ SpecOf(r).setup \in Topic
  BY <1>1, SpecFacts DEF SpecOf
<1> QED
  BY <1>1, <1>2 DEF ToolTypeOK, Clusters, Listed, Current

(* A process that stands still is not harmed by the others.                *)
LEMMA OwnStill ==
  ASSUME ToolInv, Improves, NEW r \in Tool,
         stage'[r] = stage[r], at'[r] = at[r], listing'[r] = listing[r]
  PROVE  OwnInv(r)'
<1>1. SpecOf(r)' = SpecOf(r) /\ Listed(r)' = Listed(r)
  BY DEF SpecOf, Listed
<1>2. CASE stage[r] \in {"describe", "alter"}
  <2>1. /\ SpecOf(r).name \in TopicName /\ Listed(r) \in Topic \cup {Missing}
        /\ Listed(r) # Missing
    BY <1>2, InHandFacts DEF ToolInv, HandConforms, Working
  <2>2. Current(r).partitions = SpecOf(r).setup.partitions
    BY <1>2 DEF ToolInv, HandConforms
  <2>3. Current(r) \in Topic \cup {Missing} /\ at[r] \in SpecIndex
    BY <1>2, InHandFacts DEF ToolInv, Working
  <2>4. StillAsListed(SpecOf(r).name, Current(r))
    BY DEF StillAsListed, Current
  <2>5. StillAsListed(SpecOf(r).name, Current(r))
          => \/ Current(r) = Missing
             \/ Current(r)'.partitions = Current(r).partitions
             \/ \E i \in SpecIndex : /\ Specs[i].name = SpecOf(r).name
                                     /\ Current(r)'.partitions = Specs[i].setup.partitions
    BY <1>1, <2>1, <2>3 DEF Improves, StillAsListed, Current
  <2>6. \A i \in SpecIndex : Specs[i].name = SpecOf(r).name => i = at[r]
    BY <2>3, ToolAssumption DEF SpecOf, SpecIndex
  <2>7. Current(r) # Missing
    BY <2>1 DEF ToolInv, ListingsHold, StillAsListed, Listed, Current
  <2> QED
    BY <1>1, <2>2, <2>4, <2>5, <2>6, <2>7 DEF ToolInv, DoneConforms, HandConforms, OwnInv,
       Improves, SpecOf
<1>3. CASE stage[r] \notin {"describe", "alter"}
  BY <1>1, <1>3 DEF ToolInv, DoneConforms, HandConforms, OwnInv, Improves
<1> QED
  BY <1>2, <1>3

LEMMA NoChangeImproves ==
  ASSUME ToolTypeOK, topics' = topics PROVE Improves
  BY DEF ToolTypeOK, Improves, Conforms, StillAsListed

(* A call of a process, and a late one, improve the topics.                *)
LEMMA CallImproves ==
  ASSUME ToolTypeOK, NEW c \in Call, Execute(c) PROVE Improves
  BY ExecuteKeeps DEF ToolTypeOK, Improves

LEMMA CallOfIsCall ==
  ASSUME ToolTypeOK, NEW r \in Tool, stage[r] \in Working, NEW o \in {"create", "partitions", "alter"}
  PROVE  /\ CallOf(r, o) \in Call
         /\ CallOf(r, o).op = o /\ CallOf(r, o).spec = at[r]
  BY InHandFacts DEF CallOf, Call, SpecIndex

\* What a step of one process establishes.
Kept(r) ==
  /\ ToolTypeOK'
  /\ Improves
  /\ OwnInv(r)'
  /\ \A q \in Tool : q # r =>
       stage'[q] = stage[q] /\ at'[q] = at[q] /\ listing'[q] = listing[q]
  /\ \A n \in TopicName, t \in Topic \cup {Missing} :
       listing'[r][n] = t => StillAsListed(n, t)'

(* A process goes on to the next topic when this one conforms.             *)
LEMMA NextTopicKeeps ==
  ASSUME ToolInv, NEW r \in Tool, stage[r] \in Working, NextTopic(r), Improves,
         NEW j \in SpecIndex, j = at[r], Conforms(j)', late' = late
  PROVE  Kept(r)
<1> USE DEF ToolInv
<1>1. /\ at[r] \in SpecIndex /\ at'[r] = at[r] + 1 /\ Len(Specs) \in Nat
      /\ stage'[r] = IF at[r] < Len(Specs) THEN "topic" ELSE "succeeded"
      /\ listing' = listing
  BY InHandFacts, SpecFacts DEF NextTopic, ToolTypeOK
<1>2. ToolTypeOK'
  <2>1. at' \in [Tool -> 1..(Len(Specs) + 1)]
    BY <1>1 DEF NextTopic, ToolTypeOK, SpecIndex
  <2>2. stage' \in [Tool -> Stage]
    BY DEF NextTopic, ToolTypeOK, Stage
  <2>3. ASSUME NEW q \in Tool, stage'[q] \in Working PROVE at'[q] <= Len(Specs)
    <3>1. CASE q = r
      BY <1>1, <2>3, <3>1 DEF Working, SpecIndex
    <3>2. CASE q # r
      BY <2>3, <3>2 DEF NextTopic, ToolTypeOK
    <3> QED BY <3>1, <3>2
  <2> QED
    BY <1>1, <2>1, <2>2, <2>3 DEF ToolTypeOK, Improves
<1>3. ASSUME NEW i \in SpecIndex, i < at'[r] PROVE Conforms(i)'
  <2>1. i < at[r] \/ i = j
    BY <1>1, <1>3 DEF SpecIndex
  <2> QED
    BY <2>1 DEF DoneConforms, Improves
<1>4. OwnInv(r)'
  BY <1>1, <1>3 DEF OwnInv, SpecIndex
<1>5. \A n \in TopicName, t \in Topic \cup {Missing} :
        listing'[r][n] = t => StillAsListed(n, t)'
  BY <1>1 DEF ListingsHold, Improves
<1>6. \A q \in Tool : q # r =>
        stage'[q] = stage[q] /\ at'[q] = at[q] /\ listing'[q] = listing[q]
  BY DEF NextTopic, ToolTypeOK
<1> QED
  BY <1>2, <1>4, <1>5, <1>6 DEF Kept

(* A process goes on with its topic, or fails.                             *)
LEMMA MoveKeeps ==
  ASSUME ToolInv, NEW r \in Tool, stage[r] \in Working, NEW s \in Stage \ {"succeeded"},
         Move(r, s), Improves, late' \in SUBSET Call,
         s \in {"partitions", "describe", "alter"} =>
           Listed(r) # Missing /\ Listed(r).replicas = SpecOf(r).setup.replicas,
         s \in {"describe", "alter"} => Current(r)'.partitions = SpecOf(r).setup.partitions
  PROVE  Kept(r)
<1> USE DEF ToolInv
<1>1. stage'[r] = s /\ at' = at /\ listing' = listing
  BY DEF Move, ToolTypeOK
<1>2. ToolTypeOK'
  BY InHandFacts DEF Move, ToolTypeOK, SpecIndex, Improves
<1>3. SpecOf(r)' = SpecOf(r) /\ Listed(r)' = Listed(r)
  BY <1>1 DEF SpecOf, Listed
<1>4. OwnInv(r)'
  BY <1>1, <1>3 DEF OwnInv, DoneConforms, Improves
<1>5. \A n \in TopicName, t \in Topic \cup {Missing} :
        listing'[r][n] = t => StillAsListed(n, t)'
  BY <1>1 DEF ListingsHold, Improves
<1>6. \A q \in Tool : q # r =>
        stage'[q] = stage[q] /\ at'[q] = at[q] /\ listing'[q] = listing[q]
  BY DEF Move, ToolTypeOK
<1> QED
  BY <1>2, <1>4, <1>5, <1>6 DEF Kept

(* Every step of a process.                                                *)
LEMMA ApplyKeeps ==
  ASSUME ToolInv, NEW r \in Tool, Apply(r) \/ Trouble(r)
  PROVE  Kept(r)
<1> USE DEF ToolInv
<1> DEFINE n == SpecOf(r).name
           w == SpecOf(r).setup
<1>i. OwnInv(r)
  BY OwnInvs
<1>o. stage[r] \in Working =>
        /\ at[r] \in SpecIndex /\ n \in TopicName /\ w \in Topic /\ w # Missing
        /\ Listed(r) \in Topic \cup {Missing} /\ Current(r) \in Topic \cup {Missing}
        /\ Listed(r) # Missing => Current(r) # Missing /\ Current(r).replicas = Listed(r).replicas
  BY InHandFacts, SpecFacts DEF ListingsHold, StillAsListed, Listed, Current
<1>list. CASE List(r)
  <2>1. /\ stage'[r] = "topic" /\ at'[r] = 1 /\ listing'[r] = topics /\ topics' = topics
        /\ late' = late
    BY <1>list DEF List, ToolTypeOK
  <2>2. ToolTypeOK'
    <3>1. Len(Specs) # 0
      BY SourcesAssumption, SpecFacts
    <3> QED
      BY <1>list, <2>1, <3>1, SpecFacts DEF List, ToolTypeOK, Stage, Working
  <2>3. OwnInv(r)'
    BY <2>1 DEF OwnInv, SpecIndex
  <2> QED
    BY <1>list, <2>1, <2>2, <2>3, NoChangeImproves
    DEF Kept, List, ToolTypeOK, StillAsListed
<1>create. CASE CreateTopic(r)
  <2>1. stage[r] \in Working /\ Execute(CallOf(r, "create")) /\ NextTopic(r) /\ late' = late
    BY <1>create DEF CreateTopic, Working
  <2>2. CallOf(r, "create") \in Call /\ CallOf(r, "create").op = "create"
        /\ CallOf(r, "create").spec = at[r]
    BY <2>1, CallOfIsCall
  <2>3. Improves
    BY <2>1, <2>2, CallImproves
  <2>4. topics' = [topics EXCEPT ![Specs[at[r]].name] = Specs[at[r]].setup]
        /\ Specs[at[r]].name \in TopicName
    BY <2>1, <2>2, ExecuteResult DEF ToolTypeOK
  <2>5. ASSUME NEW j \in SpecIndex, j = at[r] PROVE Conforms(j)'
    BY <2>4, <2>5 DEF Conforms, ToolTypeOK, Clusters
  <2> QED
    BY <1>o, <2>1, <2>3, <2>5, NextTopicKeeps
<1>check. CASE CheckReplication(r)
  <2>1. stage[r] \in Working /\ Move(r, "partitions") /\ topics' = topics /\ late' = late
        /\ Listed(r) # Missing /\ Listed(r).replicas = SpecOf(r).setup.replicas
    BY <1>check DEF CheckReplication, Working
  <2> QED
    BY <2>1, NoChangeImproves, MoveKeeps DEF ToolTypeOK, Stage
<1>keep. CASE KeepPartitions(r)
  <2>1. stage[r] \in Working /\ Move(r, "describe") /\ topics' = topics /\ late' = late
        /\ Listed(r) # Missing /\ Listed(r).replicas = SpecOf(r).setup.replicas
        /\ Listed(r).partitions = SpecOf(r).setup.partitions
    BY <1>keep, <1>i DEF KeepPartitions, Working, Enough, OwnInv
  <2>2. StillAsListed(n, Listed(r))
    BY <1>o, <2>1 DEF ListingsHold, Listed
  <2>3. \A i \in SpecIndex : Specs[i].name = SpecOf(r).name => i = at[r]
    BY <1>o, <2>1, ToolAssumption DEF SpecOf, SpecIndex
  <2>4. Current(r).partitions = SpecOf(r).setup.partitions
    BY <2>1, <2>2, <2>3 DEF StillAsListed, Current, SpecOf
  <2>5. Current(r)' = Current(r)
    BY <2>1 DEF Current, SpecOf, Move
  <2> QED
    BY <2>1, <2>4, <2>5, NoChangeImproves, MoveKeeps DEF ToolTypeOK, Stage
<1>add. CASE AddPartitions(r)
  <2>1. stage[r] \in Working /\ Execute(CallOf(r, "partitions")) /\ Move(r, "describe")
        /\ late' = late
        /\ Listed(r) # Missing /\ Listed(r).replicas = SpecOf(r).setup.replicas
    BY <1>add, <1>i DEF AddPartitions, Working, OwnInv
  <2>2. CallOf(r, "partitions") \in Call /\ CallOf(r, "partitions").op = "partitions"
        /\ CallOf(r, "partitions").spec = at[r]
    BY <2>1, CallOfIsCall
  <2>3. Improves
    BY <2>1, <2>2, CallImproves
  <2>4. /\ topics' = [topics EXCEPT ![Specs[at[r]].name] = Result(CallOf(r, "partitions"))]
        /\ Specs[at[r]].name \in TopicName
        /\ Result(CallOf(r, "partitions")).partitions = Specs[at[r]].setup.partitions
    BY <2>1, <2>2, ExecuteResult DEF ToolTypeOK
  <2>5. Current(r)'.partitions = SpecOf(r).setup.partitions
    BY <2>1, <2>4 DEF Current, SpecOf, Move, ToolTypeOK, Clusters
  <2> QED
    BY <2>1, <2>3, <2>5, MoveKeeps DEF ToolTypeOK, Stage
<1>same. CASE ConfigUpToDate(r)
  <2>1. stage[r] \in Working /\ NextTopic(r) /\ topics' = topics /\ late' = late
        /\ Current(r) # Missing /\ Current(r).config = SpecOf(r).setup.config
        /\ Current(r).partitions = SpecOf(r).setup.partitions
        /\ Listed(r) # Missing /\ Listed(r).replicas = SpecOf(r).setup.replicas
    BY <1>same, <1>i DEF ConfigUpToDate, Working, OwnInv
  <2>2. Current(r) = SpecOf(r).setup
    BY <1>o, <2>1 DEF Topic
  <2>3. ASSUME NEW j \in SpecIndex, j = at[r] PROVE Conforms(j)'
    BY <2>1, <2>2, <2>3 DEF Conforms, Current, SpecOf
  <2> QED
    BY <1>o, <2>1, <2>3, NoChangeImproves, NextTopicKeeps
<1>differs. CASE ConfigDiffers(r)
  <2>1. stage[r] \in Working /\ Move(r, "alter") /\ topics' = topics /\ late' = late
        /\ Listed(r) # Missing /\ Listed(r).replicas = SpecOf(r).setup.replicas
        /\ Current(r).partitions = SpecOf(r).setup.partitions
    BY <1>differs, <1>i DEF ConfigDiffers, Working, OwnInv
  <2>2. Current(r)' = Current(r)
    BY <2>1 DEF Current, SpecOf, Move
  <2> QED
    BY <2>1, <2>2, NoChangeImproves, MoveKeeps DEF ToolTypeOK, Stage
<1>alter. CASE AlterConfig(r)
  <2>1. stage[r] \in Working /\ Execute(CallOf(r, "alter")) /\ NextTopic(r) /\ late' = late
        /\ Current(r).partitions = SpecOf(r).setup.partitions
        /\ Listed(r) # Missing /\ Listed(r).replicas = SpecOf(r).setup.replicas
    BY <1>alter, <1>i DEF AlterConfig, Working, OwnInv
  <2>2. CallOf(r, "alter") \in Call /\ CallOf(r, "alter").op = "alter"
        /\ CallOf(r, "alter").spec = at[r]
    BY <2>1, CallOfIsCall
  <2>3. Improves
    BY <2>1, <2>2, CallImproves
  <2>4. /\ topics' = [topics EXCEPT ![SpecOf(r).name] = Result(CallOf(r, "alter"))]
        /\ Result(CallOf(r, "alter")) \in Topic
        /\ Result(CallOf(r, "alter")).replicas = Current(r).replicas
        /\ Result(CallOf(r, "alter")).partitions = Current(r).partitions
        /\ Result(CallOf(r, "alter")).config = SpecOf(r).setup.config
    BY <2>1, <2>2, ExecuteResult DEF ToolTypeOK, SpecOf, Current
  <2>5. Result(CallOf(r, "alter")) = SpecOf(r).setup
    BY <1>o, <2>1, <2>4 DEF Topic
  <2>6. ASSUME NEW j \in SpecIndex, j = at[r] PROVE Conforms(j)'
    BY <1>o, <2>1, <2>4, <2>5, <2>6 DEF Conforms, ToolTypeOK, Clusters, SpecOf
  <2> QED
    BY <1>o, <2>1, <2>3, <2>6, NextTopicKeeps
<1>fail. CASE WrongReplication(r) \/ TooManyPartitions(r) \/ Refused(r) \/ Raise(r) \/ TimesOut(r)
  <2>1. Move(r, "failed") /\ topics' = topics /\ late' \in SUBSET Call
    BY <1>fail DEF WrongReplication, TooManyPartitions, Refused, Raise, TimesOut, InHand, ToolTypeOK
  <2>2. stage[r] \in Working
    BY <1>fail DEF WrongReplication, TooManyPartitions, Refused, Raise, TimesOut, InHand, Working
  <2> QED
    BY <2>1, <2>2, NoChangeImproves, MoveKeeps DEF Stage
<1> QED
  BY <1>list, <1>create, <1>check, <1>keep, <1>add, <1>same, <1>differs, <1>alter, <1>fail
  DEF Apply, Trouble

(* Every step of the tool, of any of its processes or of a late call.      *)
LEMMA ToolStep ==
  ASSUME ToolInv, Administer \/ (\E r \in Tool : Trouble(r)) \/ UNCHANGED toolVars
  PROVE  ToolInv'
<1>1. ASSUME NEW r \in Tool, Kept(r) PROVE ToolInv'
  <2>1. ASSUME NEW q \in Tool PROVE OwnInv(q)'
    BY <1>1, OwnStill DEF Kept
  <2>2. ListingsHold'
    <3>1. ASSUME NEW q \in Tool, NEW n \in TopicName PROVE StillAsListed(n, listing[q][n])'
      <4>1. listing'[q][n] \in Topic \cup {Missing}
        BY <1>1 DEF Kept, ToolTypeOK, Clusters
      <4>2. CASE q = r
        BY <1>1, <4>1, <4>2 DEF Kept, StillAsListed
      <4>3. CASE q # r
        BY <1>1, <4>1, <4>3 DEF Kept, Improves, ToolInv, ListingsHold, StillAsListed
      <4> QED BY <4>2, <4>3
    <3> QED BY <3>1 DEF ListingsHold
  <2> QED
    BY <1>1, <2>1, <2>2 DEF Kept, ToolInv, OwnInv, DoneConforms, HandConforms
<1>2. ASSUME Improves, ToolTypeOK', UNCHANGED <<stage, at, listing>> PROVE ToolInv'
  <2>1. ASSUME NEW q \in Tool PROVE OwnInv(q)'
    BY <1>2, OwnStill
  <2>2. ListingsHold'
    BY <1>2 DEF ToolInv, ToolTypeOK, Clusters, Improves, ListingsHold, StillAsListed
  <2> QED
    BY <1>2, <2>1, <2>2 DEF ToolInv, OwnInv, DoneConforms, HandConforms
<1>3. ASSUME NEW c \in Call, ExecuteLate(c) PROVE ToolInv'
  <2>1. Improves /\ UNCHANGED <<stage, at, listing>>
    BY <1>3, CallImproves DEF ExecuteLate, ToolInv
  <2>2. ToolTypeOK'
    BY <1>3, <2>1 DEF ExecuteLate, ToolInv, ToolTypeOK, Improves
  <2> QED BY <1>2, <2>1, <2>2
<1>4. CASE UNCHANGED toolVars
  <2>1. ToolTypeOK' /\ Improves
    BY <1>4, NoChangeImproves DEF toolVars, ToolInv, ToolTypeOK
  <2> QED BY <1>2, <1>4, <2>1 DEF toolVars
<1> QED
  BY <1>1, <1>3, <1>4, ApplyKeeps DEF Administer

-----------------------------------------------------------------------------
(* The producers.                                                          *)

Unsent(p) == {pending[p][i] : i \in 1..Len(pending[p])}

\* What holds of each producer: what main() has in hand where it is, and where
\* the messages of a process are until a failure is counted.
ProducerOK(p) ==
  /\ place[p] = "down" => queue[p] \cup acked[p] \cup errored[p] = {}
  /\ place[p] \in {"loop", "down"} => pending[p] = <<>>
  /\ place[p] = "send" => pending[p] # <<>>
  /\ place[p] = "flush" /\ ~raising[p] => pending[p] = <<>>
  /\ place[p] # "down" => status[p] = 2
  /\ place[p] # "down" /\ failed[p] = 0 =>
       made[p] \subseteq topic \cup queue[p] \cup errored[p] \cup Unsent(p)
  /\ status[p] = 0 => made[p] \subseteq topic

EventsInv == EventsTypeOK /\ \A p \in Producer : ProducerOK(p)

LEMMA EventsInvInit == EventsInit => EventsInv
  BY EventsAssumption
  DEF EventsInit, ProducerInit, EventsInv, EventsTypeOK, ProducerTypeOK, ProducerOK

\* The step of a process leaves the others alone and takes nothing off the topic.
Alone(p) ==
  /\ topic \subseteq topic'
  /\ \A q \in Producer : q # p =>
       /\ queue'[q] = queue[q] /\ acked'[q] = acked[q] /\ errored'[q] = errored[q]
       /\ failed'[q] = failed[q] /\ place'[q] = place[q] /\ pending'[q] = pending[q]
       /\ made'[q] = made[q] /\ raising'[q] = raising[q] /\ status'[q] = status[q]

\* What the types of the variables come to without what each process adds.
Shapes ==
  /\ ProducerTypeOK
  /\ place \in [Producer -> {"down", "loop", "send", "flush"}]
  /\ pending \in [Producer -> Seq(Message)]
  /\ made \in [Producer -> SUBSET Message]
  /\ stopped \in [Producer -> BOOLEAN]
  /\ raising \in [Producer -> BOOLEAN]
  /\ status \in [Producer -> 0..2]
  /\ batches \in 0..Batches

LEMMA ShapesSuffice == EventsInv <=> Shapes /\ \A p \in Producer : ProducerOK(p)
  BY DEF EventsInv, EventsTypeOK, Shapes, ProducerOK

LEMMA AloneKeeps ==
  ASSUME EventsInv, NEW p \in Producer, Alone(p), Shapes', ProducerOK(p)'
  PROVE  EventsInv'
<1>1. ASSUME NEW q \in Producer, q # p PROVE ProducerOK(q)'
  <2>1. Unsent(q)' = Unsent(q)
    BY <1>1 DEF Unsent, Alone
  <2> QED
    BY <1>1, <2>1 DEF EventsInv, ProducerOK, Alone
<1> QED
  BY <1>1, ShapesSuffice DEF EventsInv, EventsTypeOK, Shapes, ProducerOK

(* The callbacks count what has failed.                                    *)
LEMMA CallbacksCount ==
  ASSUME ProducerTypeOK, NEW p \in Producer, RunCallbacks(p)
  PROVE  /\ delivered' \in [Producer -> Nat] /\ failed' \in [Producer -> Nat]
         /\ acked' \in [Producer -> SUBSET Message] /\ errored' \in [Producer -> SUBSET Message]
         /\ acked'[p] = {} /\ errored'[p] = {}
         /\ failed'[p] = 0 => failed[p] = 0 /\ errored[p] = {}
         /\ \A q \in Producer : q # p =>
              acked'[q] = acked[q] /\ errored'[q] = errored[q] /\ failed'[q] = failed[q]
<1>1. /\ Cardinality(acked[p]) \in Nat /\ Cardinality(errored[p]) \in Nat
      /\ Cardinality(errored[p]) = 0 => errored[p] = {}
  BY ProducerAssumption, FS_Subset, FS_CardinalityType, FS_EmptySet DEF ProducerTypeOK
<1> QED
  BY <1>1 DEF RunCallbacks, ProducerTypeOK

(* A batch is messages, and not none.                                      *)
LEMMA BatchFacts ==
  ASSUME NEW n \in 1..Batches, NEW A \in SUBSET Anomaly
  PROVE  Batch(n, A) \in Seq(Message) /\ Batch(n, A) # <<>>
<1> DEFINE Maybe(k) == IF k \in A THEN <<<<n, k>>>> ELSE <<>>
           first == <<<<n, "event">>>>
           one == first \o Maybe("duplicate")
           two == one \o Maybe("meaningless")
           all == two \o Maybe("garbage")
<1>1. <<n, "event">> \in Message /\ \A k \in A : <<n, k>> \in Message
  BY EventsAssumption
<1>2. first \in Seq(Message) /\ Len(first) >= 1
  BY <1>1
<1>3. \A k : Maybe(k) \in Seq(Message)
  BY <1>1
<1> HIDE DEF Maybe, first
<1>x. ASSUME NEW s \in Seq(Message), Len(s) >= 1, NEW k
      PROVE  s \o Maybe(k) \in Seq(Message) /\ Len(s \o Maybe(k)) >= 1
  BY <1>3, <1>x, ConcatProperties, LenProperties
<1>4. one \in Seq(Message) /\ Len(one) >= 1
  BY <1>2, <1>x, Zenon
<1> HIDE DEF one
<1>5. two \in Seq(Message) /\ Len(two) >= 1
  BY <1>4, <1>x, Zenon
<1> HIDE DEF two
<1>6. all \in Seq(Message) /\ Len(all) >= 1
  BY <1>5, <1>x, Zenon
<1>7. Batch(n, A) = all
  BY DEF Batch, Maybe, first, one, two
<1> QED
  BY <1>6, <1>7, LenProperties

(* Where the process is gone, so is what it had.                           *)
LEMMA ExitKeeps ==
  ASSUME EventsInv, NEW p \in Producer, NEW code \in {0, 1}, Exit(p, code),
         code = 0 => made[p] \subseteq topic
  PROVE  EventsInv'
<1>1. Alone(p) /\ Shapes'
  BY ShapesSuffice DEF Exit, Forget, Goto, Alone, Shapes, ProducerTypeOK
<1>2. ProducerOK(p)'
  BY ShapesSuffice DEF Exit, Forget, Goto, ProducerOK, Shapes, ProducerTypeOK
<1> QED
  BY <1>1, <1>2, AloneKeeps

(* Every step of the loop.                                                 *)
LEMMA LoopKeeps ==
  ASSUME EventsInv, NEW p \in Producer,
         Process(p) \/ StartProcess(p) \/ Stop(p) \/ Kill(p)
  PROVE  EventsInv'
<1>t. Shapes /\ ProducerOK(p) /\ ProducerTypeOK
  BY ShapesSuffice DEF Shapes
<1>start. CASE StartProcess(p)
  <2>1. Alone(p) /\ Shapes'
    BY <1>start, <1>t DEF StartProcess, Goto, producerVars, Alone, Shapes, ProducerTypeOK
  <2>2. ProducerOK(p)'
    BY <1>start, <1>t DEF StartProcess, Goto, producerVars, ProducerOK, Shapes, ProducerTypeOK
  <2> QED BY <2>1, <2>2, AloneKeeps
<1>stop. CASE Stop(p)
  <2>1. Alone(p) /\ Shapes'
    BY <1>stop, <1>t DEF Stop, producerVars, Alone, Shapes, ProducerTypeOK
  <2>2. ProducerOK(p)'
    BY <1>stop, <1>t DEF Stop, producerVars, ProducerOK, Unsent
  <2> QED BY <2>1, <2>2, AloneKeeps
<1>batch. CASE NextBatch(p)
  <2>1. PICK A \in SUBSET Anomaly :
          /\ pending' = [pending EXCEPT ![p] = Batch(batches', A)]
          /\ made' = [made EXCEPT ![p] =
               @ \cup {Batch(batches', A)[i] : i \in 1..Len(Batch(batches', A))}]
    BY <1>batch DEF NextBatch
  <2>2. /\ place[p] = "loop" /\ place' = [place EXCEPT ![p] = "send"]
        /\ batches' = batches + 1 /\ batches < Batches
        /\ UNCHANGED <<producerVars, stopped, raising, status>>
    BY <1>batch DEF NextBatch, Goto
  <2>3. batches' \in 1..Batches
    BY <1>t, <2>2, EventsAssumption DEF Shapes
  <2> DEFINE b == Batch(batches', A)
  <2>4. b \in Seq(Message) /\ b # <<>>
    BY <2>3, BatchFacts
  <2>5. pending'[p] = b /\ made'[p] = made[p] \cup {b[i] : i \in 1..Len(b)}
    BY <1>t, <2>1 DEF Shapes
  <2> HIDE DEF b
  <2>6. {b[i] : i \in 1..Len(b)} \subseteq Message
    BY <2>4
  <2>7. Shapes'
    BY <1>t, <2>1, <2>2, <2>3, <2>4, <2>6 DEF b, Shapes, producerVars, ProducerTypeOK
  <2>8. Alone(p)
    BY <1>t, <2>1, <2>2 DEF Alone, Shapes, producerVars
  <2>9. ProducerOK(p)'
    <3>1. place'[p] = "send" /\ Unsent(p) = {} /\ status'[p] = status[p]
      BY <1>t, <2>2 DEF Shapes, ProducerOK, Unsent
    <3>2. Unsent(p)' = {b[i] : i \in 1..Len(b)}
      BY <2>5 DEF Unsent
    <3> QED
      BY <1>t, <2>2, <2>4, <2>5, <3>1, <3>2 DEF ProducerOK, producerVars
  <2> QED BY <2>7, <2>8, <2>9, AloneKeeps
<1>send. CASE Send(p)
  <2> DEFINE s == pending[p]
             m == Head(s)
  <2>1. /\ place[p] = "send" /\ RunCallbacks(p) /\ topic' = topic
        /\ queue' = [queue EXCEPT ![p] = @ \cup {m}]
        /\ pending' = [pending EXCEPT ![p] = Tail(@)]
        /\ place' = [place EXCEPT ![p] = IF Len(pending[p]) = 1 THEN "loop" ELSE "send"]
        /\ UNCHANGED <<made, stopped, raising, status, batches>>
    BY <1>send DEF Send, Enqueue, Goto
  <2>2. s \in Seq(Message) /\ s # <<>>
    BY <1>t, <2>1 DEF Shapes, ProducerOK
  <2>3. m \in Message /\ Tail(s) \in Seq(Message) /\ Len(Tail(s)) = Len(s) - 1
        /\ Len(s) \in Nat \ {0} /\ m = s[1]
        /\ \A i \in 2..Len(s) : i - 1 \in 1..Len(Tail(s)) /\ s[i] = Tail(s)[i - 1]
    BY <2>2
  <2>4. Shapes'
    BY <1>t, <2>1, <2>3, CallbacksCount DEF Shapes, ProducerTypeOK
  <2>5. Alone(p)
    BY <1>t, <2>1, CallbacksCount DEF Alone, Shapes, ProducerTypeOK
  <2>6. pending'[p] = Tail(s) /\ queue'[p] = queue[p] \cup {m}
    BY <1>t, <2>1 DEF Shapes, ProducerTypeOK
  <2>7. Unsent(p) \subseteq {m} \cup Unsent(p)'
    <3>1. ASSUME NEW i \in 1..Len(s) PROVE s[i] \in {m} \cup {Tail(s)[j] : j \in 1..Len(Tail(s))}
      <4>1. CASE i = 1
        BY <2>3, <4>1
      <4>2. CASE i # 1
        <5>1. i \in 2..Len(s)
          BY <2>3, <4>2
        <5> QED BY <2>3, <5>1
      <4> QED BY <4>1, <4>2
    <3> QED
      BY <2>6, <3>1 DEF Unsent
  <2>8. place'[p] = "loop" => pending'[p] = <<>>
    <3>1. place'[p] = "loop" => Len(Tail(s)) = 0
      BY <1>t, <2>1, <2>3 DEF Shapes
    <3> QED BY <2>3, <2>6, <3>1, EmptySeq
  <2>9. place'[p] = "send" => pending'[p] # <<>>
    <3>1. place'[p] = "send" => Len(Tail(s)) # 0
      BY <1>t, <2>1, <2>3 DEF Shapes
    <3> QED BY <2>3, <2>6, <3>1, EmptySeq
  <2>10. place'[p] \in {"loop", "send"} /\ place'[p] # "down" /\ place'[p] # "flush"
    BY <1>t, <2>1 DEF Shapes
  <2>11. failed'[p] = 0 => made'[p] \subseteq topic' \cup queue'[p] \cup errored'[p] \cup Unsent(p)'
    BY <1>t, <2>1, <2>6, <2>7, CallbacksCount DEF ProducerOK
  <2> QED
    BY <1>t, <2>1, <2>4, <2>5, <2>8, <2>9, <2>10, <2>11, AloneKeeps DEF ProducerOK
<1>waits. CASE SendWaits(p)
  <2>1. RunCallbacks(p) /\ UNCHANGED <<queue, topic, loopVars>> /\ place[p] = "send"
    BY <1>waits DEF SendWaits, AwaitRoom
  <2>2. Alone(p) /\ Shapes'
    BY <1>t, <2>1, CallbacksCount DEF Alone, Shapes, ProducerTypeOK, loopVars
  <2>3. ProducerOK(p)'
    BY <1>t, <2>1, CallbacksCount DEF ProducerOK, loopVars, Unsent
  <2> QED BY <2>2, <2>3, AloneKeeps
<1>throw. CASE SendGivesUp(p) \/ SerializationFails(p)
  <2>1. /\ place[p] = "send" /\ Throw(p) /\ UNCHANGED <<queue, acked, errored, delivered, topic>>
        /\ failed' \in [Producer -> Nat]
        /\ failed'[p] = 0 => failed[p] = 0
        /\ \A q \in Producer : q # p => failed'[q] = failed[q]
    BY <1>throw, <1>t DEF SendGivesUp, SerializationFails, GiveUp, producerVars, ProducerTypeOK
  <2>2. Alone(p) /\ Shapes'
    BY <1>t, <2>1 DEF Alone, Shapes, ProducerTypeOK, Throw, Goto
  <2>3. ProducerOK(p)'
    BY <1>t, <2>1 DEF ProducerOK, Throw, Goto, Unsent, Shapes
  <2> QED BY <2>2, <2>3, AloneKeeps
<1>leave. CASE LeaveLoop(p)
  <2>1. Alone(p) /\ Shapes'
    BY <1>leave, <1>t DEF LeaveLoop, Goto, producerVars, Alone, Shapes, ProducerTypeOK
  <2>2. ProducerOK(p)'
    BY <1>leave, <1>t DEF LeaveLoop, Goto, producerVars, ProducerOK, Unsent, Shapes
  <2> QED BY <2>1, <2>2, AloneKeeps
<1>exit. CASE FlushAndExit(p)
  <2> DEFINE bad == \/ raising[p]
                    \/ failed[p] + Cardinality(errored[p]) > 0
                    \/ StillQueued(p) > 0
  <2>1. place[p] = "flush" /\ Exit(p, IF bad THEN 1 ELSE 0)
    BY <1>exit DEF FlushAndExit
  <2>2. /\ Cardinality(queue[p]) \in Nat /\ Cardinality(errored[p]) \in Nat
        /\ Cardinality(errored[p]) = 0 => errored[p] = {}
        /\ Cardinality(queue[p]) = 0 => queue[p] = {}
    BY <1>t, ProducerAssumption, FS_Subset, FS_CardinalityType, FS_EmptySet DEF ProducerTypeOK
  <2>3. failed[p] \in Nat
    BY <1>t DEF ProducerTypeOK
  <2>4. ASSUME ~bad PROVE made[p] \subseteq topic
    <3>1. ~raising[p] /\ failed[p] = 0 /\ errored[p] = {} /\ queue[p] = {}
      BY <2>2, <2>3, <2>4 DEF StillQueued
    <3>2. Unsent(p) = {}
      BY <1>t, <2>1, <3>1 DEF ProducerOK, Unsent
    <3> QED
      BY <1>t, <2>1, <3>1, <3>2 DEF ProducerOK
  <2> HIDE DEF bad
  <2>5. CASE bad
    BY <2>1, <2>5, ExitKeeps
  <2>6. CASE ~bad
    BY <2>1, <2>4, <2>6, ExitKeeps
  <2> QED BY <2>5, <2>6
<1>kill. CASE Kill(p)
  BY <1>kill, ExitKeeps DEF Kill
<1> QED
  BY <1>start, <1>stop, <1>batch, <1>send, <1>waits, <1>throw, <1>leave, <1>exit, <1>kill
  DEF Process

(* The background thread confirms a message or gives it up.                *)
LEMMA ThreadKeeps ==
  ASSUME EventsInv, NEW p \in Producer, NEW m \in Message,
         Deliver(p, m) \/ Expire(p, m), UNCHANGED loopVars
  PROVE  EventsInv'
<1>t. Shapes /\ ProducerOK(p) /\ ProducerTypeOK
  BY ShapesSuffice DEF Shapes
<1>1. place[p] # "down"
  BY <1>t DEF ProducerOK, Deliver, Expire
<1>2. topic' = topic \/ topic' = topic \cup {m}
  BY DEF Deliver, Expire
<1>4. Alone(p)
  BY <1>t, <1>2 DEF Deliver, Expire, loopVars, Alone, Shapes, ProducerTypeOK
<1>5. ProducerTypeOK'
  BY <1>t, <1>2 DEF Deliver, Expire, ProducerTypeOK
<1>6. Shapes'
  BY <1>t, <1>5 DEF loopVars, Shapes
<1>3. ProducerOK(p)'
  BY <1>t, <1>1 DEF Deliver, Expire, loopVars, ProducerOK, ProducerTypeOK, Unsent
<1> QED
  BY <1>3, <1>4, <1>6, AloneKeeps

LEMMA NothingSent ==
  ASSUME EventsInv, UNCHANGED <<producerVars, loopVars>> PROVE EventsInv'
  BY DEF producerVars, loopVars, EventsInv, EventsTypeOK, ProducerTypeOK, ProducerOK, Unsent

-----------------------------------------------------------------------------
(* The two together.                                                       *)

\* A producer has been started only behind a run of the tool that succeeded, and
\* what succeeded is over.
Gate == \A p \in Producer : place[p] # "down" => stage[TopicInit] = "succeeded"

Brokered == up \in 0..Brokers /\ copies \in [Message -> 0..Brokers]

IInv == ToolInv /\ EventsInv /\ Gate /\ Brokered /\ ConfirmedIsReplicated

LEMMA InvInit == Init => IInv
<1> SUFFICES ASSUME Init PROVE IInv
  OBVIOUS
<1>1. ToolInv /\ EventsInv
  BY ToolInvInit, EventsInvInit DEF Init
<1>2. Gate /\ Brokered /\ ConfirmedIsReplicated
  BY SourcesAssumption DEF Init, EventsInit, Gate, Brokered, ConfirmedIsReplicated
<1> QED
  BY <1>1, <1>2 DEF IInv

(* While a producer runs, its topic has the setting its specs ask for.     *)
LEMMA TargetConforms ==
  ASSUME IInv, NEW p \in Producer, place[p] # "down"
  PROVE  topics[Target] \in Topic /\ topics[Target].config >= 2
<1>1. PICK i \in SpecIndex : Specs[i].name = Target /\ Specs[i].setup.config >= 2
  BY SourcesAssumption DEF SpecIndex
<1>2. stage[TopicInit] = "succeeded" /\ TopicInit \in Tool
  BY SourcesAssumption DEF IInv, Gate
<1>3. at[TopicInit] = Len(Specs) + 1
  BY <1>2 DEF IInv, ToolInv, HandConforms
<1>4. i < at[TopicInit]
  BY <1>3, SpecFacts DEF SpecIndex
<1>5. Conforms(i)
  BY <1>2, <1>4 DEF IInv, ToolInv, DoneConforms
<1> QED
  BY <1>1, <1>5, SpecFacts DEF Conforms

(* A process of the tool that has succeeded makes no more steps.           *)
LEMMA SucceededIsOver ==
  ASSUME ToolInv, Administer \/ (\E r \in Tool : Trouble(r)),
         NEW q \in Tool, stage[q] = "succeeded"
  PROVE  stage'[q] = "succeeded"
<1>1. ASSUME NEW r \in Tool, Apply(r) \/ Trouble(r) PROVE stage'[q] = "succeeded"
  <2>1. stage[r] # "succeeded"
    BY <1>1 DEF Apply, Trouble, List, CreateTopic, CheckReplication, WrongReplication,
       KeepPartitions, AddPartitions, TooManyPartitions, ConfigUpToDate, ConfigDiffers,
       AlterConfig, Refused, InHand, Raise, TimesOut, Working
  <2> QED
    BY <1>1, <2>1, ApplyKeeps DEF Kept
<1>2. ASSUME NEW c \in Call, ExecuteLate(c) PROVE stage'[q] = "succeeded"
  BY <1>2 DEF ExecuteLate
<1> QED
  BY <1>1, <1>2 DEF Administer

(* No step, and no stuttering, breaks it.                                  *)
LEMMA InvNext == IInv /\ [Next]_vars => IInv'
<1> SUFFICES ASSUME IInv, [Next]_vars PROVE IInv'
  OBVIOUS
<1>i. ToolInv /\ EventsInv /\ Gate /\ Brokered /\ ConfirmedIsReplicated
  BY DEF IInv
<1>tool. ASSUME UNCHANGED toolVars PROVE ToolInv'
  BY <1>i, <1>tool, ToolStep
<1>gate. ASSUME UNCHANGED <<toolVars, place>> PROVE Gate'
  BY <1>i, <1>gate DEF Gate, toolVars
<1>copies. ASSUME UNCHANGED brokerVars PROVE Brokered' /\ ConfirmedIsReplicated'
  BY <1>i, <1>copies DEF brokerVars, Brokered, ConfirmedIsReplicated
<1>admin. CASE (Administration \/ ToolFails)
  <2>1. /\ Administer \/ (\E r \in Tool : Trouble(r))
        /\ UNCHANGED <<producerVars, loopVars, brokerVars>>
    BY <1>admin DEF Administration, ToolFails
  <2>2. ToolInv' /\ EventsInv'
    BY <1>i, <2>1, ToolStep, NothingSent
  <2>3. Gate'
    BY <1>i, <2>1, SucceededIsOver, SourcesAssumption DEF Gate, loopVars
  <2> QED
    BY <1>copies, <2>1, <2>2, <2>3 DEF IInv
<1>loop. ASSUME NEW p \in Producer, Start(p) \/ Works(p) \/ Signal(p) \/ Dies(p) PROVE IInv'
  <2>1. /\ Process(p) \/ StartProcess(p) \/ Stop(p) \/ Kill(p)
        /\ UNCHANGED <<toolVars, brokerVars>>
    BY <1>loop DEF Start, Works, Signal, Dies
  <2>2. ToolInv' /\ EventsInv'
    BY <1>i, <1>tool, <2>1, LoopKeeps
  <2>3. Gate'
    <3>1. CASE Start(p)
      BY <1>i, <3>1 DEF Start, Gate, toolVars
    <3>2. CASE Works(p) \/ Signal(p) \/ Dies(p)
      <4>1. place[p] # "down"
        BY <3>2 DEF Works, Process, Signal, Dies, NextBatch, Send, SendWaits, SendGivesUp,
           SerializationFails, LeaveLoop, FlushAndExit, Stop, Kill
      <4> QED
        BY <1>i, <2>1, <4>1 DEF Gate, toolVars
    <3> QED
      BY <1>loop, <3>1, <3>2
  <2> QED
    BY <1>copies, <2>1, <2>2, <2>3 DEF IInv
<1>confirm. ASSUME NEW p \in Producer, NEW m \in Message, Confirm(p, m) PROVE IInv'
  <2>1. /\ Deliver(p, m) /\ UNCHANGED <<toolVars, loopVars, up>>
        /\ InSync >= topics[Target].config
        /\ copies' = [copies EXCEPT ![m] = InSync]
    BY <1>confirm DEF Confirm
  <2>2. place[p] # "down"
    BY <1>i, <2>1 DEF Deliver, EventsInv, ProducerOK
  <2>3. topics[Target] \in Topic /\ topics[Target].config >= 2
    BY <2>2, TargetConforms
  <2>4. InSync \in 0..Brokers /\ InSync # 1
    BY <1>i, <2>1, <2>3, SourcesAssumption DEF InSync, Topic, Brokered
  <2>5. Brokered' /\ ConfirmedIsReplicated'
    BY <1>i, <2>1, <2>4 DEF Brokered, ConfirmedIsReplicated
  <2>6. ToolInv' /\ EventsInv' /\ Gate'
    BY <1>i, <1>tool, <1>gate, <2>1, ThreadKeeps DEF loopVars
  <2> QED
    BY <2>5, <2>6 DEF IInv
<1>stale. ASSUME NEW p \in Producer, NEW m \in Message, GoesStale(p, m) PROVE IInv'
  <2>1. Expire(p, m) /\ UNCHANGED <<toolVars, loopVars, brokerVars>>
    BY <1>stale DEF GoesStale
  <2> QED
    BY <1>i, <1>tool, <1>gate, <1>copies, <2>1, ThreadKeeps DEF IInv, loopVars
<1>broker. CASE BrokerFails \/ BrokerReturns
  <2>1. /\ up' \in 0..Brokers
        /\ UNCHANGED <<toolVars, producerVars, loopVars, copies>>
    BY <1>i, <1>broker, SourcesAssumption DEF BrokerFails, BrokerReturns, Brokered
  <2>2. Brokered' /\ ConfirmedIsReplicated'
    BY <1>i, <2>1 DEF Brokered, ConfirmedIsReplicated
  <2> QED
    BY <1>i, <1>tool, <1>gate, <2>1, <2>2, NothingSent DEF IInv, loopVars
<1>still. CASE UNCHANGED vars
  BY <1>i, <1>still, <1>tool, <1>gate, <1>copies, NothingSent DEF vars, loopVars, IInv
<1> QED
  BY <1>admin, <1>loop, <1>confirm, <1>stale, <1>broker, <1>still
  DEF Next, Operation, Disruption, Kafka

LEMMA Invariant == Spec => []IInv
  BY InvInit, InvNext, PTL DEF Spec

(* Every variable keeps its type.                                          *)
THEOREM TypeCorrect == Spec => []TypeOK
<1>1. IInv => TypeOK
  BY DEF IInv, ToolInv, EventsInv, Brokered, TypeOK
<1> QED
  BY <1>1, Invariant, PTL

(* apply_topics.py: when a process exits with 0, every topic of the specs  *)
(* is as they say, whatever other processes and late calls did meanwhile.  *)
THEOREM Applied == Spec => []AppliedConforms
<1>1. IInv => AppliedConforms
  <2> SUFFICES ASSUME IInv, NEW r \in Tool, stage[r] = "succeeded", NEW i \in SpecIndex
               PROVE  Conforms(i)
    BY DEF AppliedConforms, Conforms, SpecIndex
  <2>1. i < at[r]
    BY SpecFacts DEF IInv, ToolInv, HandConforms, SpecIndex
  <2> QED
    BY <2>1 DEF IInv, ToolInv, DoneConforms
<1> QED
  BY <1>1, Invariant, PTL

(* event_producers/main.py: an exit with 0 has left every message of the   *)
(* process on the topic.                                                   *)
THEOREM CleanExit == Spec => []CleanExitLosesNothing
<1>1. IInv => CleanExitLosesNothing
  BY DEF IInv, EventsInv, ProducerOK, CleanExitLosesNothing
<1> QED
  BY <1>1, Invariant, PTL

(* topics.yaml with depends_on: no message is confirmed on one replica.    *)
THEOREM Replicated == Spec => []ConfirmedIsReplicated
<1>1. IInv => ConfirmedIsReplicated
  BY DEF IInv
<1> QED
  BY <1>1, Invariant, PTL

-----------------------------------------------------------------------------
(* What becomes of a topic.                                                *)

\* A step changes no topic, or executes one call.
OneCall == topics' = topics \/ \E c \in Call : Execute(c)

(* Whatever the tool does, or is done to it late, is one call at a time.   *)
LEMMA ToolCalls ==
  ASSUME ToolTypeOK, Administer \/ (\E r \in Tool : Trouble(r)) \/ UNCHANGED toolVars
  PROVE  OneCall
<1>1. ASSUME NEW r \in Tool, Apply(r) PROVE OneCall
  <2>1. CASE CreateTopic(r)
    BY <2>1, CallOfIsCall DEF CreateTopic, Working, OneCall
  <2>2. CASE AddPartitions(r)
    BY <2>2, CallOfIsCall DEF AddPartitions, Working, OneCall
  <2>3. CASE AlterConfig(r)
    BY <2>3, CallOfIsCall DEF AlterConfig, Working, OneCall
  <2>4. CASE \/ List(r) \/ CheckReplication(r) \/ WrongReplication(r) \/ KeepPartitions(r)
             \/ TooManyPartitions(r) \/ ConfigUpToDate(r) \/ ConfigDiffers(r) \/ Refused(r)
    BY <2>4 DEF List, CheckReplication, WrongReplication, KeepPartitions,
       TooManyPartitions, ConfigUpToDate, ConfigDiffers, Refused, OneCall
  <2> QED BY <1>1, <2>1, <2>2, <2>3, <2>4 DEF Apply
<1>2. ASSUME NEW r \in Tool, Trouble(r) PROVE OneCall
  BY <1>2 DEF Trouble, Raise, TimesOut, OneCall
<1>3. ASSUME NEW c \in Call, ExecuteLate(c) PROVE OneCall
  BY <1>3 DEF ExecuteLate, OneCall
<1>4. CASE UNCHANGED toolVars
  BY <1>4 DEF toolVars, OneCall
<1> QED BY <1>1, <1>2, <1>3, <1>4 DEF Administer

(* A call of Kafka takes nothing away from a topic.                        *)
LEMMA ExecuteGrows ==
  ASSUME topics \in Clusters, NEW c \in Call, Execute(c),
         NEW n \in TopicName, topics[n] # Missing
  PROVE  topics'[n] # Missing /\ topics'[n].partitions >= topics[n].partitions
<1>1. topics[n] \in Topic /\ topics[n].partitions \in Nat
  BY DEF Clusters, Topic
<1>2. CASE n # Specs[c.spec].name
  BY <1>1, <1>2, ExecuteResult DEF Clusters
<1>3. CASE n = Specs[c.spec].name
  <2>1. topics'[n] = Result(c) /\ Result(c) \in Topic /\ Result(c) # Missing
    BY <1>3, ExecuteResult, SpecFacts DEF Clusters
  <2>2. c.op \in {"partitions", "alter"} /\ c.spec \in SpecIndex
    BY <1>3, ExecuteResult DEF Call, SpecIndex
  <2>3. CASE c.op = "partitions"
    <3>1. Specs[c.spec].setup.partitions \in Nat
      BY <2>2, SpecFacts DEF Topic
    <3> QED BY <1>1, <1>3, <2>1, <2>3, <3>1, ExecuteResult
  <2>4. CASE c.op = "alter"
    BY <1>1, <1>3, <2>1, <2>4, ExecuteResult
  <2> QED BY <2>2, <2>3, <2>4
<1> QED BY <1>2, <1>3

(* What a step does to the topics.                                         *)
LEMMA OneCallImproves ==
  ASSUME topics \in Clusters, OneCall
  PROVE  /\ \A i \in SpecIndex : Conforms(i) => Conforms(i)'
         /\ \A n \in TopicName : topics[n] # Missing =>
              topics'[n] # Missing /\ topics'[n].partitions >= topics[n].partitions
<1>1. CASE topics' = topics
  BY <1>1 DEF Conforms, Clusters, Topic
<1>2. ASSUME NEW c \in Call, Execute(c)
      PROVE  /\ \A i \in SpecIndex : Conforms(i) => Conforms(i)'
             /\ \A n \in TopicName : topics[n] # Missing =>
                  topics'[n] # Missing /\ topics'[n].partitions >= topics[n].partitions
  BY <1>2, ExecuteKeeps, ExecuteGrows
<1> QED BY <1>1, <1>2 DEF OneCall

(* apply_topics.py: no run, however stale its listing, and no late call    *)
(* spoils a topic that conforms, or takes a topic or its partitions away.  *)
THEOREM OnlyImprove == Spec => TopicsOnlyImprove
<1>1. ASSUME IInv, [Next]_vars PROVE OneCall
  <2>1. ToolTypeOK
    BY <1>1 DEF IInv, ToolInv
  <2>2. Administer \/ (\E r \in Tool : Trouble(r)) \/ UNCHANGED toolVars
    BY <1>1 DEF Next, Operation, Disruption, Administration, ToolFails, Start, Works, Signal,
       Dies, Kafka, Confirm, GoesStale, BrokerFails, BrokerReturns, vars
  <2> QED BY <2>1, <2>2, ToolCalls
<1>2. IInv /\ [Next]_vars
        => [/\ \A i \in 1..Len(Specs) :
                 topics[Specs[i].name] = Specs[i].setup => topics'[Specs[i].name] = Specs[i].setup
            /\ \A n \in TopicName : topics[n] # Missing =>
                 /\ topics'[n] # Missing
                 /\ topics'[n].partitions >= topics[n].partitions]_toolVars
  BY <1>1, OneCallImproves DEF IInv, ToolInv, ToolTypeOK, Conforms, SpecIndex
<1> QED BY <1>2, Invariant, PTL DEF Spec, TopicsOnlyImprove

\* The topic of a running producer takes part in the replication it needs.
RunningIsSafe ==
  \A p \in Producer : place[p] # "down" =>
    topics[Target] # Missing /\ topics[Target].config >= 2

(* The gate of Compose holds for good: from its start to its end a         *)
(* producer has its topic, with two in-sync replicas demanded, although    *)
(* the tool may be run again beside it.                                    *)
THEOREM RunningProducerIsSafe == Spec => []RunningIsSafe
<1>1. IInv => RunningIsSafe
  BY TargetConforms, SpecFacts DEF RunningIsSafe
<1> QED BY <1>1, Invariant, PTL
=============================================================================
