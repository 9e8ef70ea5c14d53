------------------------------ MODULE TopicTool ------------------------------
(***************************************************************************)
(* tools/apply_topics.py: brings the Kafka topics to what infra/topics.yaml*)
(* says, one admin call at a time, from metadata it read once at its start.*)
(* Compose runs it once ("topic-init"); an operator may run it beside it,  *)
(* or again after a failure.                                               *)
(***************************************************************************)
EXTENDS Naturals, Sequences

CONSTANTS
  Tool,          \* processes that run the tool
  TopicName,
  Setup,         \* how a topic may be set up at first, or is to be
  Specs,         \* load_topic_specs(): names with their setup, in order
  Missing

\* A config is the number behind min.insync.replicas.
Topic == [partitions: Nat, replicas: Nat, config: Nat]

\* topics.yaml has no topic twice.
ASSUME ToolAssumption ==
  /\ Setup \subseteq Topic
  /\ Specs \in Seq([name: TopicName, setup: Setup])
  /\ \A i, j \in 1..Len(Specs) : Specs[i].name = Specs[j].name => i = j
  /\ Missing \notin Topic

VARIABLES
  topics,        \* the topics of the cluster
  stage,         \* where a process is in apply_topics()
  at,            \* the spec in hand
  listing,       \* its kafka_metadata
  late           \* calls that timed out and may still be executed

toolVars == <<topics, stage, at, listing, late>>

Stage == {"idle", "topic", "partitions", "describe", "alter", "succeeded", "failed"}
Working == {"topic", "partitions", "describe", "alter"}

Clusters == [TopicName -> Topic \cup {Missing}]

\* The calls that change something.
Call == [op: {"create", "partitions", "alter"}, spec: 1..Len(Specs)]

\* The values of the variables.
ToolTypeOK ==
  /\ topics \in Clusters
  /\ stage \in [Tool -> Stage]
  /\ at \in [Tool -> 1..(Len(Specs) + 1)]
  /\ listing \in [Tool -> Clusters]
  /\ late \in SUBSET Call
  /\ \A r \in Tool : stage[r] \in Working => at[r] <= Len(Specs)

ToolInit ==
  /\ topics \in [TopicName -> Setup \cup {Missing}]
  /\ stage = [r \in Tool |-> "idle"]
  /\ at = [r \in Tool |-> 1]
  /\ listing = [r \in Tool |-> topics]
  /\ late = {}

SpecOf(r) == Specs[at[r]]
Listed(r) == listing[r][SpecOf(r).name]
Current(r) == topics[SpecOf(r).name]

Move(r, s) ==
  /\ stage' = [stage EXCEPT ![r] = s]
  /\ UNCHANGED <<at, listing>>

\* Mutant: one topic too many.
NextTopicTooFar(r) ==
  /\ at' = [at EXCEPT ![r] = @ + 1]
  /\ stage' = [stage EXCEPT ![r] = IF at[r] <= Len(Specs) THEN "topic" ELSE "succeeded"]
  /\ UNCHANGED listing

\* The loop goes on to the next topic, or is over.
NextTopic(r) ==
  /\ at' = [at EXCEPT ![r] = @ + 1]
  /\ stage' = [stage EXCEPT ![r] = IF at[r] < Len(Specs) THEN "topic" ELSE "succeeded"]
  /\ UNCHANGED listing

-----------------------------------------------------------------------------
\* The process starts, or is started again after a failure.
List(r) ==
  /\ stage[r] \in {"idle", "failed"}
  /\ stage' = [stage EXCEPT ![r] = "topic"]
  /\ at' = [at EXCEPT ![r] = 1]
  /\ listing' = [listing EXCEPT ![r] = topics]
  /\ UNCHANGED <<topics, late>>

\* What Kafka makes of a call: an error, or the topic as it then is.  A topic is
\* not created twice and gets no partitions it has.
Allowed(c) ==
  LET t == topics[Specs[c.spec].name]
      wanted == Specs[c.spec].setup
  IN CASE c.op = "create" -> t = Missing
       [] c.op = "partitions" -> t # Missing /\ t.partitions < wanted.partitions
       [] c.op = "alter" -> t # Missing

Result(c) ==
  LET t == topics[Specs[c.spec].name]
      wanted == Specs[c.spec].setup
  IN CASE c.op = "create" -> wanted
       [] c.op = "partitions" -> [t EXCEPT !.partitions = wanted.partitions]
       [] c.op = "alter" -> [t EXCEPT !.config = wanted.config]

Execute(c) ==
  /\ Allowed(c)
  /\ topics' = [topics EXCEPT ![Specs[c.spec].name] = Result(c)]

CallOf(r, op) == [op |-> op, spec |-> at[r]]

\* create_topic() with every setting, and on to the next topic.
CreateTopic(r) ==
  /\ stage[r] = "topic"
  /\ Listed(r) = Missing
  /\ Execute(CallOf(r, "create"))
  /\ NextTopic(r)
  /\ UNCHANGED late

\* check_replication_factor()
CheckReplication(r) ==
  /\ stage[r] = "topic"
  /\ Listed(r) # Missing
  /\ Listed(r).replicas = SpecOf(r).setup.replicas
  /\ Move(r, "partitions")
  /\ UNCHANGED <<topics, late>>

WrongReplication(r) ==
  /\ stage[r] = "topic"
  /\ Listed(r) # Missing
  /\ Listed(r).replicas # SpecOf(r).setup.replicas
  /\ Move(r, "failed")
  /\ UNCHANGED <<topics, late>>

Enough(r) == Listed(r).partitions = SpecOf(r).setup.partitions

\* update_partitions() compares with the listing.
KeepPartitions(r) ==
  /\ stage[r] = "partitions"
  /\ Enough(r)
  /\ Move(r, "describe")
  /\ UNCHANGED <<topics, late>>

\* Mutant: a topic that got partitions is taken to be up to date.
AddPartitionsOnly(r) ==
  /\ stage[r] = "partitions"
  /\ Listed(r).partitions < SpecOf(r).setup.partitions
  /\ Execute(CallOf(r, "partitions"))
  /\ NextTopic(r)
  /\ UNCHANGED late

AddPartitions(r) ==
  /\ stage[r] = "partitions"
  /\ Listed(r).partitions < SpecOf(r).setup.partitions
  /\ Execute(CallOf(r, "partitions"))
  /\ Move(r, "describe")
  /\ UNCHANGED late

TooManyPartitions(r) ==
  /\ stage[r] = "partitions"
  /\ Listed(r).partitions > SpecOf(r).setup.partitions
  /\ Move(r, "failed")
  /\ UNCHANGED <<topics, late>>

\* update_config() describes the topic ...
ConfigUpToDate(r) ==
  /\ stage[r] = "describe"
  /\ Current(r) # Missing
  /\ Current(r).config = SpecOf(r).setup.config
  /\ NextTopic(r)
  /\ UNCHANGED <<topics, late>>

ConfigDiffers(r) ==
  /\ stage[r] = "describe"
  /\ Current(r) # Missing
  /\ Current(r).config # SpecOf(r).setup.config
  /\ Move(r, "alter")
  /\ UNCHANGED <<topics, late>>

\* Mutant: the setting is reset before it is set.
AlterConfigResets(r) ==
  /\ stage[r] = "alter"
  /\ Current(r) # Missing
  /\ IF Current(r).config > 1
       THEN /\ topics' = [topics EXCEPT ![SpecOf(r).name].config = 1]
            /\ UNCHANGED <<stage, at, listing>>
       ELSE Execute(CallOf(r, "alter")) /\ NextTopic(r)
  /\ UNCHANGED late

\* ... and sets what differed.
AlterConfig(r) ==
  /\ stage[r] = "alter"
  /\ Execute(CallOf(r, "alter"))
  /\ NextTopic(r)
  /\ UNCHANGED late

\* The call in hand, if it changes something.
InHand(r) ==
  {c \in Call :
     /\ c.spec = at[r]
     /\ \/ stage[r] = "topic" /\ Listed(r) = Missing /\ c.op = "create"
        \/ /\ stage[r] = "partitions"
           /\ Listed(r).partitions < SpecOf(r).setup.partitions
           /\ c.op = "partitions"
        \/ stage[r] = "alter" /\ c.op = "alter"}

\* Kafka refuses the call: the topic is no longer as it was listed.
Refused(r) ==
  /\ \E c \in InHand(r) : ~Allowed(c)
  /\ Move(r, "failed")
  /\ UNCHANGED <<topics, late>>

\* Any other exception, or the process dies.
Raise(r) ==
  /\ stage[r] \in Working
  /\ Move(r, "failed")
  /\ UNCHANGED <<topics, late>>

\* future.result() times out; Kafka may still execute the call.
TimesOut(r) ==
  /\ \E c \in InHand(r) : late' = late \cup {c}
  /\ Move(r, "failed")
  /\ UNCHANGED topics

ExecuteLate(c) ==
  /\ c \in late
  /\ Execute(c)
  /\ late' = late \ {c}
  /\ UNCHANGED <<stage, at, listing>>

-----------------------------------------------------------------------------
Apply(r) ==
  \/ List(r) \/ CreateTopic(r) \/ CheckReplication(r) \/ WrongReplication(r)
  \/ KeepPartitions(r) \/ AddPartitions(r) \/ TooManyPartitions(r)
  \/ ConfigUpToDate(r) \/ ConfigDiffers(r) \/ AlterConfig(r)
  \/ Refused(r)

Trouble(r) == Raise(r) \/ TimesOut(r)

Administer == (\E r \in Tool : Apply(r)) \/ \E c \in Call : ExecuteLate(c)

\* A process that exits with 0 has left every topic as topics.yaml says, although
\* it works from old metadata, beside other processes and timed-out calls, and a
\* run may break off between any two calls.
AppliedConforms ==
  \A r \in Tool : stage[r] = "succeeded" =>
    \A i \in 1..Len(Specs) : topics[Specs[i].name] = Specs[i].setup

\* Nobody spoils what another has done: a topic that is as topics.yaml says stays
\* so, whichever run still works from an older listing and whichever call Kafka
\* executes late; and no topic is lost or loses partitions.
TopicsOnlyImprove ==
  [][/\ \A i \in 1..Len(Specs) :
          topics[Specs[i].name] = Specs[i].setup => topics'[Specs[i].name] = Specs[i].setup
     /\ \A n \in TopicName : topics[n] # Missing =>
          /\ topics'[n] # Missing
          /\ topics'[n].partitions >= topics[n].partitions]_toolVars
=============================================================================
