---------------------------- MODULE MCReplayReading ---------------------------
(* The replay of history on small instances: how a run reads its window,   *)
(* and the form that asks for a run in front of the gateway.               *)
(* Reading: the window asked for is 2..3, the slack reaches one offset     *)
(* further, the first and the last message of a log lie outside.           *)
EXTENDS ReplayReading

CONSTANTS Absent, Keep, Blank, NoNumber

VARIABLES part, form, rules, catalog, now, sent, answer, edits, changes

asking == <<form, rules, catalog, now, sent, answer, edits, changes>>
replayVars == <<part, vars, asking>>

FrameMsg(at, value) == [kind |-> "frame", at |-> at, value |-> value]
CopyMsg == [kind |-> "copy", at |-> 3, value |-> 3]
ForeignMsg == [kind |-> "foreign", at |-> 2, value |-> 0]
BrokenMsg == [kind |-> "undecodable", at |-> 0, value |-> 0]
UnusableMsg == [kind |-> "unusable", at |-> 3, value |-> 3]

SentAt(offset) ==
  {FrameMsg(at, value) : at \in 2..offset, value \in {0, 2, 3}} \cup {CopyMsg, BrokenMsg}

MCLogs ==
  LET long == {<<FrameMsg(1, 2), a, b, c, FrameMsg(5, 3)>> : a \in SentAt(2), b \in SentAt(3) \cup {UnusableMsg}, c \in SentAt(4)}
      short == {<<ForeignMsg, FrameMsg(2, NoValue)>>, <<FrameMsg(1, 2), FrameMsg(2, 3), FrameMsg(3, 0)>>}
  IN {<<l, <<>>>> : l \in long} \cup {<<k, l>> : k, l \in short} \cup {<<<<>>, <<>>>>}

-------------------------------------------------------------------------------
(* The form: two devices, of which the second is no chamber and its rule   *)
(* is off; half a second is one unit of time.                              *)

Rule(min, max, debounce, enabled) ==
  [min |-> min, max |-> max, debounce |-> debounce, enabled |-> enabled]

MCStandRules ==
  (<<"d1", "k1">> :> Rule(1, 3, 1, TRUE)) @@ (<<"d1", "k2">> :> Rule(Absent, 2, 1, TRUE))
    @@ (<<"d2", "k1">> :> Rule(2, Absent, 1, FALSE))

MCEdits ==
  {<<"min", NoNumber>>, <<"min", 2>>, <<"max", 2>>, <<"clearMin", TRUE>>, <<"clearMax", TRUE>>,
   <<"debounce", 3>>, <<"enabled", "on">>, <<"enabled", "off">>}

F == INSTANCE ReplayForm WITH
       MaxDebounce <- 2, Devices <- {"d1", "d2"}, Chambers <- {"d1"}, Keys <- {"k1", "k2"},
       StandRules <- {MCStandRules}, OtherRules <- {Rule(1, 2, 1, TRUE)},
       RetentionTime <- 4, Slack <- 2, Presets <- {2, 4}, Marks <- {3, 8}, StartNow <- 7, MaxNow <- 9,
       MaxPatches <- 2, Edits <- MCEdits, MaxEdits <- 3, MaxChanges <- 1

(* What is typed into one draft, the rules it may meet, and the episodes   *)
(* of one row of the difference.                                           *)
Typed == {Blank, NoNumber, 1, 2, 3}
MCDrafts ==
  [id : {1}, key : {"k1"}, min : Typed, clearMin : BOOLEAN, max : Typed, clearMax : BOOLEAN,
   debounce : {Blank, NoNumber, 0, 1, 2}, enabled : {"keep", "on", "off"}]
MCRules ==
  LET mine == {Rule(min, max, debounce, enabled) :
                 min \in {Absent, 1}, max \in {2, 3}, debounce \in {1, 2}, enabled \in BOOLEAN}
      others == {Rule(1, 3, 1, TRUE), Rule(2, Absent, 1, FALSE)}
  IN  {(<<"d1", "k1">> :> r) @@ (<<"d2", k>> :> s) : r \in mine, s \in others, k \in {"k1", "k2"}}
        \cup {<<"d1", "k2">> :> r : r \in others}
Episodes ==
  {e \in [variant : Variants, raised : 0..2, cleared : {Absent} \cup 1..3] :
     e.cleared # Absent => e.cleared >= e.raised}
EpisodeSets == {{a, b, c} : a, b, c \in Episodes} \cup {{}}

-------------------------------------------------------------------------------
NoReading ==
  /\ log = <<>> /\ low = <<>> /\ window = <<>> /\ next = <<>> /\ position = <<>> /\ seek = <<>>
  /\ paused = {} /\ batch = <<>> /\ core = <<>> /\ applied = <<>> /\ latch = "none" /\ rejoins = 0

NoForm ==
  /\ form = Absent /\ rules = Absent /\ catalog = Absent /\ now = 0 /\ sent = Absent /\ answer = Absent
  /\ edits = 0 /\ changes = 0

ReplayInit ==
  \/ part = "reading" /\ Init /\ NoForm
  \/ part = "form" /\ F!FormInit /\ NoReading

Reading(A) == part = "reading" /\ A /\ UNCHANGED <<part, asking>>
Asking(A) == part = "form" /\ A /\ UNCHANGED <<part, vars>>

ReplayNext == Reading(Next) \/ Asking(F!FormNext)

(* Fairness of ReplayReading; nobody has to fill in a form. *)
ReplayFairness ==
  /\ WF_replayVars(Reading(NothingToRead))
  /\ \A p \in Partitions :
       /\ SF_replayVars(Reading(Seek(p))) /\ WF_replayVars(Reading(OutOfRange(p)))
       /\ WF_replayVars(Reading(Fetch(p)))
       /\ SF_replayVars(Reading(HandleMessage(p))) /\ WF_replayVars(Reading(EndBatch(p)))

ReplaySpec == ReplayInit /\ [][ReplayNext]_replayVars /\ ReplayFairness

(* The pure checks need one state only. *)
AtStart == part = "form" /\ edits = 0 /\ now = 7 /\ changes = 0 /\ \A d \in DOMAIN catalog : catalog[d] = Absent

(* What a reading reports depends on the window alone and can be stored,  *)
(* and every message of the window is given to the core once, or deleted.  *)
ReadingIsSound == part = "reading" => OutcomeIsSound /\ ReadOnceOrLost

(* A run that is asked for compares what was meant by it, the form says so *)
(* before and not the gateway after, and the difference pairs the episodes *)
(* as its definition says.                                                 *)
AskedIsMeant ==
  /\ part = "form" => F!FormForesees /\ F!RunCompares /\ F!DraftsAreApart
  /\ AtStart => F!DraftsAreForeseen(MCDrafts, MCRules) /\ F!PairsAreTrue(EpisodeSets, 3)

(* A reading ends although retention eats the window meanwhile.            *)
EveryReadingEnds == <>(part = "reading" => latch # "none")
===============================================================================
