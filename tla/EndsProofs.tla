------------------------------ MODULE EndsProofs ------------------------------
(***************************************************************************)
(* Proofs about the ends of the way of a measurement, for any number of    *)
(* tabs, calls, messages, failures, runs, tokens and faults.               *)
(*                                                                         *)
(* The live channel: what the tab may see is sent or the demand to read    *)
(* again is, and the tab applies events in their order and once, though    *)
(* the ids it presents come from frames that were passed over, from an     *)
(* EventSource that is gone or from before a renewal.  The session: the    *)
(* cookie can be renewed, or there is a reason why not.  The buffer of the *)
(* collector: every message is waiting, in its topic or counted as lost.   *)
(* The login: a bucket holds what its failures leave.  The screen of a     *)
(* run: an end, once shown, stays.  The feed of alarms: its pages skip no  *)
(* episode.  The rules: each is what its last entry in the journal says.   *)
(***************************************************************************)
EXTENDS MCEnds, FiniteSetTheorems, SequenceTheorems, TLAPS
USE LiveAssumption DEF LiveAssumption

Frames == [type: {"hello", "resync", "event"}, id: Ids]

Types ==
  /\ log \in [Epochs -> Seq(BOOLEAN)] /\ epoch \in Epochs
  /\ \A e \in Epochs : Len(log[e]) <= MaxEvents /\ (e > epoch => log[e] = <<>>)
  /\ ring \in Seq(Nat) /\ pipe \in Seq(Frames) /\ applied \in Seq(Ids)
  /\ source \in {"connecting", "open", "hung", "dead"}
  /\ lastId \in [own: Ids \cup {NoId}, query: Ids \cup {NoId}]
  /\ store \in Ids \cup {NoId} /\ seen \subseteq Ids /\ armed \in BOOLEAN
  /\ asked \in [from: Ids \cup {NoId}, at: Nat, sent: SUBSET Nat, resync: BOOLEAN]

(* The ring holds the last numbers of its epoch, without a hole.           *)
RingInv ==
  /\ Len(ring) <= Seq0 /\ Len(ring) <= Capacity
  /\ Seq0 > 0 => ring # <<>>
  /\ \A k \in DOMAIN ring : ring[k] = Seq0 - Len(ring) + k

(* On their way are the greeting, a demand, then events in their order,    *)
(* later than all that was applied.                                        *)
PipeInv ==
  /\ \A k \in DOMAIN pipe : pipe[k].id[1] = epoch /\ pipe[k].id[2] <= Seq0
  /\ \A j, k \in DOMAIN pipe : j < k /\ pipe[j].type = "event" =>
       pipe[k].type = "event" /\ After(pipe[k].id, pipe[j].id)
  /\ \A k \in DOMAIN pipe, a \in DOMAIN applied :
       /\ pipe[k].type = "event" => After(pipe[k].id, applied[a])
       /\ pipe[k].type # "event" => ~After(applied[a], pipe[k].id)
  /\ source # "open" => pipe = <<>>

(* Whoever asks from this id on is sent nothing that was applied.          *)
Reaches(id) ==
  /\ id = NoId => applied = <<>>
  /\ id # NoId => \A k \in DOMAIN applied : ~After(applied[k], id)

TabInv ==
  /\ \A k \in DOMAIN applied : ~After(applied[k], CurrentId)
  /\ Reaches(store) /\ Reaches(Presented)

LiveInv == Types /\ RingInv /\ ServerOmitsNothing /\ PipeInv /\ TabInv /\ AppliedInOrderOnce

-------------------------------------------------------------------------------
LEMMA InitLive == Init => LiveInv
BY DEF Init, LiveInv, Types, RingInv, ServerOmitsNothing, PipeInv, TabInv, AppliedInOrderOnce, NotAsked,
  Epochs, Seq0, Reaches, Presented, CurrentId, Frames

(* Frames and ids. *)
LEMMA IdParts == ASSUME NEW id \in Ids PROVE id[1] \in Epochs /\ id[1] \in Nat /\ id[2] \in 0..MaxEvents /\ id[2] \in Nat /\ id # NoId
BY DEF Ids, Epochs

LEMMA CurrentIsId == Types => CurrentId \in Ids /\ Seq0 \in Nat /\ epoch \in Nat
BY DEF Types, CurrentId, Ids, Epochs, Seq0

LEMMA AfterIsOrder ==
  ASSUME NEW a \in Ids, NEW b \in Ids, NEW c \in Ids
  PROVE  /\ After(a, b) => ~After(b, a)
         /\ After(a, b) /\ After(b, c) => After(a, c)
         /\ After(a, b) /\ ~After(c, b) => After(a, c)
         /\ ~After(b, a) /\ ~After(c, b) => ~After(c, a)
BY IdParts DEF After

LEMMA Elements ==
  ASSUME Types
  PROVE  /\ \A k \in DOMAIN pipe : pipe[k] \in Frames /\ pipe[k].id \in Ids
         /\ \A k \in DOMAIN applied : applied[k] \in Ids
         /\ \A k \in DOMAIN ring : ring[k] \in Nat
<1>1. /\ \A k \in DOMAIN pipe : pipe[k] \in Frames
      /\ \A k \in DOMAIN applied : applied[k] \in Ids
      /\ \A k \in DOMAIN ring : ring[k] \in Nat
  BY DEF Types
<1>2. \A frame \in Frames : frame.id \in Ids
  BY DEF Frames
<1> QED BY <1>1, <1>2

LEMMA Extended ==
  ASSUME NEW M, NEW s \in Seq(M), NEW x \in M
  PROVE  /\ Append(s, x) \in Seq(M) /\ Len(s) \in Nat /\ Len(Append(s, x)) = Len(s) + 1
         /\ DOMAIN s = 1..Len(s) /\ DOMAIN Append(s, x) = 1..Len(s) + 1
         /\ \A k \in DOMAIN s : Append(s, x)[k] = s[k] /\ k \in DOMAIN Append(s, x)
         /\ Append(s, x)[Len(s) + 1] = x
OBVIOUS

(* What a step leaves alone keeps its part of the invariant.               *)
LEMMA SameServer ==
  ASSUME Types, RingInv, UNCHANGED server
  PROVE  RingInv' /\ Seq0' = Seq0 /\ CurrentId' = CurrentId
BY DEF server, RingInv, Seq0, CurrentId

-------------------------------------------------------------------------------
LEMMA PublishLive == ASSUME LiveInv, NEW mine \in BOOLEAN, Publish(mine) PROVE LiveInv'
<1> DEFINE n == Seq0 + 1
           id == <<epoch, n>>
<1>1. Types /\ RingInv /\ ServerOmitsNothing /\ PipeInv /\ TabInv /\ AppliedInOrderOnce
  BY DEF LiveInv
<1>2. Seq0 \in Nat /\ n \in Nat /\ n <= MaxEvents /\ epoch \in Epochs /\ epoch \in Nat /\ id \in Ids
  <2>1. Seq0 \in Nat /\ epoch \in Epochs /\ epoch \in Nat /\ Seq0 < MaxEvents
    BY <1>1, CurrentIsId DEF Publish, Types
  <2>2. n \in Nat /\ n <= MaxEvents /\ n \in 0..MaxEvents
    BY <2>1
  <2> QED BY <2>1, <2>2 DEF Ids
<1>3. /\ log' = [log EXCEPT ![epoch] = Append(log[epoch], mine)] /\ epoch' = epoch
      /\ Seq0' = n /\ CurrentId' = id
  BY <1>1, <1>2 DEF Publish, Types, Seq0, CurrentId
<1>4. /\ \A e \in Epochs : log'[e] = IF e = epoch THEN Append(log[epoch], mine) ELSE log[e]
      /\ log'[epoch][n] = mine /\ \A m \in 1..Seq0 : log'[epoch][m] = log[epoch][m]
      /\ Append(log[epoch], mine) \in Seq(BOOLEAN) /\ Len(Append(log[epoch], mine)) = n
      /\ log' \in [Epochs -> Seq(BOOLEAN)]
  BY <1>1, <1>2, <1>3 DEF Types, Seq0
<1>5. RingInv' /\ ring' \in Seq(Nat)
  <2>1. ring' = Appended(n) /\ ring \in Seq(Nat) /\ Append(ring, n) \in Seq(Nat)
        /\ Len(Append(ring, n)) = Len(ring) + 1
    BY <1>1, <1>2 DEF Publish, Types
  <2>2. CASE Len(ring) + 1 > Capacity
    <3>1. ring' = Tail(Append(ring, n)) /\ Len(ring') = Len(ring) /\ Len(ring) = Capacity
      BY <1>1, <2>1, <2>2 DEF Appended, RingInv
    <3>2. \A k \in DOMAIN ring' : ring'[k] = Append(ring, n)[k + 1]
      BY <2>1, <3>1, Extended
    <3>3. \A k \in DOMAIN ring' : ring'[k] = n - Len(ring') + k
      <4> TAKE k \in DOMAIN ring'
      <4>1. k \in Nat /\ k >= 1 /\ k <= Len(ring) /\ Len(ring) \in Nat
        BY <2>1, <3>1
      <4> HIDE DEF n
      <4>4. Len(ring') = Len(ring) /\ n = Seq0 + 1
        BY <3>1 DEF n
      <4>2. CASE k = Len(ring)
        <5>1. Append(ring, n)[Len(ring) + 1] = n
          BY <1>2, <2>1, Extended
        <5>2. ring'[k] = n
          BY <3>2, <4>2, <5>1
        <5> QED BY ONLY <1>2, <4>1, <4>2, <4>4, <5>2
      <4>3. CASE k + 1 \in DOMAIN ring
        <5>1. ring'[k] = ring[k + 1]
          BY <2>1, <3>2, <4>3, <1>2, Extended
        <5>2. ring[k + 1] = Seq0 - Len(ring) + (k + 1)
          BY <1>1, <4>3 DEF RingInv
        <5> QED BY ONLY <1>2, <4>1, <4>4, <5>1, <5>2
      <4> QED BY <2>1, <4>1, <4>2, <4>3
    <3>4. ring' \in Seq(Nat) /\ ring' # <<>>
      <4>1. Append(ring, n) # <<>>
        BY <2>1
      <4>2. Len(ring') # 0
        BY <3>1
      <4> QED BY <2>1, <3>1, <4>1, <4>2
    <3>5. Len(ring') <= n /\ Len(ring') <= Capacity
      BY <1>1, <1>2, <3>1 DEF RingInv
    <3> QED BY <1>3, <3>3, <3>4, <3>5 DEF RingInv
  <2>3. CASE Len(ring) + 1 <= Capacity
    <3>1. ring' = Append(ring, n)
      BY <1>1, <2>1, <2>3 DEF Appended, Types
    <3>2. \A k \in DOMAIN ring' : ring'[k] = n - Len(ring') + k
      <4> TAKE k \in DOMAIN ring'
      <4>1. k \in 1..Len(ring) + 1 /\ Len(ring) \in Nat /\ Len(ring') = Len(ring) + 1
        BY <1>2, <2>1, <3>1, Extended
      <4>2. CASE k = Len(ring) + 1
        BY <1>2, <2>1, <3>1, <4>1, <4>2, Extended
      <4>3. CASE k \in DOMAIN ring
        <5>1. ring'[k] = ring[k]
          BY <1>2, <2>1, <3>1, <4>3, Extended
        <5> QED BY <1>1, <1>2, <4>1, <4>3, <5>1 DEF RingInv
      <4> QED BY <2>1, <4>1, <4>2, <4>3
    <3>3. Len(ring') <= n /\ Len(ring') <= Capacity /\ ring' # <<>>
      BY <1>1, <1>2, <2>1, <2>3, <3>1 DEF RingInv
    <3> QED BY <1>3, <2>1, <3>1, <3>2, <3>3 DEF RingInv
  <2> QED BY <1>1, <2>1, <2>2, <2>3 DEF Types
<1>6. Types'
  <2>1. pipe' \in Seq(Frames)
    <3>1. pipe \in Seq(Frames) /\ Frame("event", id) \in Frames
      BY <1>1, <1>2 DEF Types, Frames, Frame
    <3>2. pipe' = pipe \/ pipe' = Append(pipe, Frame("event", id))
      BY DEF Publish
    <3> QED BY <3>1, <3>2, Extended
  <2>2. asked' \in [from: Ids \cup {NoId}, at: Nat, sent: SUBSET Nat, resync: BOOLEAN]
    <3>1. asked' = asked \/ asked' = [asked EXCEPT !.sent = asked.sent \cup {n}]
      BY DEF Publish
    <3>2. CASE asked' = [asked EXCEPT !.sent = asked.sent \cup {n}]
      <4>1. asked.sent \cup {n} \in SUBSET Nat
        BY <1>1, <1>2 DEF Types
      <4> QED BY ONLY <1>1, <3>2, <4>1 DEF Types
    <3> QED BY <1>1, <3>1, <3>2 DEF Types
  <2>3. \A e \in Epochs : Len(log'[e]) <= MaxEvents /\ (e > epoch => log'[e] = <<>>)
    BY <1>1, <1>2, <1>4 DEF Types
  <2> QED BY <1>1, <1>3, <1>4, <1>5, <2>1, <2>2, <2>3 DEF Publish, Types
<1>7. ServerOmitsNothing'
  <2> SUFFICES ASSUME source' = "open", ~asked'.resync, NEW m \in 1..n, Allowed(<<epoch, m>>)',
                      IF asked'.from = NoId THEN m > asked'.at ELSE m > asked'.from[2]
               PROVE  m \in asked'.sent
    BY <1>3 DEF ServerOmitsNothing
  <2>1. source = "open" /\ asked'.from = asked.from /\ asked'.at = asked.at /\ asked'.resync = asked.resync
        /\ asked.sent \subseteq asked'.sent
    BY <1>1 DEF Publish, Types
  <2>2. CASE m = n
    <3>1. log'[epoch][n] = TRUE
      BY <1>3, <2>2 DEF Allowed
    <3>2. asked' = [asked EXCEPT !.sent = asked.sent \cup {n}]
      BY <1>4, <2>1, <3>1 DEF Publish
    <3> QED BY <1>1, <2>2, <3>2 DEF Types
  <2>3. CASE m \in 1..Seq0
    BY <1>1, <1>3, <1>4, <2>1, <2>3 DEF ServerOmitsNothing, Allowed
  <2> QED BY <1>2, <2>2, <2>3
<1>8. PipeInv'
  <2>1. applied' = applied /\ source' = source
    BY DEF Publish
  <2>2. \A a \in DOMAIN applied : After(id, applied[a])
    <3> TAKE a \in DOMAIN applied
    <3>1. applied[a] \in Ids /\ ~After(applied[a], <<epoch, Seq0>>)
      BY <1>1, Elements DEF TabInv, CurrentId
    <3> QED BY <1>2, <3>1, IdParts DEF After
  <2>3. CASE pipe' = pipe
    <3>1. \A k \in DOMAIN pipe : pipe[k].id[2] <= n
      BY <1>1, <1>2, Elements, IdParts, CurrentIsId DEF PipeInv
    <3> QED BY <1>1, <1>3, <2>1, <2>3, <3>1 DEF PipeInv, After
  <2>4. CASE pipe' = Append(pipe, Frame("event", id)) /\ source = "open"
    <3>1. /\ pipe \in Seq(Frames) /\ DOMAIN pipe' = 1..Len(pipe) + 1 /\ DOMAIN pipe = 1..Len(pipe)
          /\ Len(pipe) \in Nat /\ pipe'[Len(pipe) + 1] = Frame("event", id)
          /\ \A k \in DOMAIN pipe : pipe'[k] = pipe[k] /\ pipe[k].id \in Ids
      BY <1>1, <1>2, <2>4, Elements, Extended DEF Types, Frames, Frame
    <3>2. \A k \in DOMAIN pipe : After(id, pipe[k].id)
      BY <1>1, <1>2, <3>1, IdParts, CurrentIsId DEF PipeInv, After
    <3>3. \A k \in DOMAIN pipe' : pipe'[k].id[1] = epoch /\ pipe'[k].id[2] <= n
      BY <1>1, <1>2, <3>1, IdParts, CurrentIsId DEF PipeInv, Frame
    <3>4. \A j, k \in DOMAIN pipe' : j < k /\ pipe'[j].type = "event" =>
            pipe'[k].type = "event" /\ After(pipe'[k].id, pipe'[j].id)
      BY <1>1, <3>1, <3>2 DEF PipeInv, Frame
    <3>5. \A k \in DOMAIN pipe', a \in DOMAIN applied :
            /\ pipe'[k].type = "event" => After(pipe'[k].id, applied[a])
            /\ pipe'[k].type # "event" => ~After(applied[a], pipe'[k].id)
      BY <1>1, <2>2, <3>1 DEF PipeInv, Frame
    <3>6. source' # "open" => pipe' = <<>>
      BY <2>1, <2>4
    <3> HIDE DEF n, id
    <3> QED BY ONLY <1>3, <2>1, <3>3, <3>4, <3>5, <3>6 DEF PipeInv, After
  <2> QED BY <2>3, <2>4 DEF Publish
<1>9. TabInv' /\ AppliedInOrderOnce'
  <2>1. UNCHANGED <<applied, store, lastId>>
    BY DEF Publish
  <2>2. \A k \in DOMAIN applied : ~After(applied[k], id)
    <3> TAKE a \in DOMAIN applied
    <3>1. applied[a] \in Ids /\ ~After(applied[a], <<epoch, Seq0>>)
      BY <1>1, Elements DEF TabInv, CurrentId
    <3> QED BY <1>2, <3>1, IdParts DEF After
  <2> QED BY <1>1, <1>3, <2>1, <2>2 DEF TabInv, Reaches, Presented, After, AppliedInOrderOnce
<1> QED BY <1>5, <1>6, <1>7, <1>8, <1>9 DEF LiveInv

-------------------------------------------------------------------------------
LEMMA RestartLive == ASSUME LiveInv, Restart PROVE LiveInv'
<1>1. Types /\ RingInv /\ PipeInv /\ TabInv /\ AppliedInOrderOnce
  BY DEF LiveInv
<1>2. epoch + 1 \in Epochs /\ epoch \in Nat /\ epoch' = epoch + 1 /\ log' = log /\ Seq0 \in Nat
  BY <1>1, CurrentIsId DEF Restart, Types, Epochs
<1>3. Seq0' = 0 /\ CurrentId' = <<epoch + 1, 0>>
  BY <1>1, <1>2 DEF Seq0, CurrentId, Types
<1>4. RingInv'
  BY <1>3 DEF Restart, RingInv
<1>5. Types'
  BY <1>1, <1>2 DEF Restart, Types, NotAsked, Epochs
<1>6. source' # "open" /\ pipe' = <<>>
  BY <1>1 DEF Restart, Types
<1>7. ServerOmitsNothing' /\ PipeInv'
  BY <1>6 DEF ServerOmitsNothing, PipeInv
<1>8. TabInv' /\ AppliedInOrderOnce'
  <2>1. UNCHANGED <<applied, store, lastId>>
    BY DEF Restart
  <2>2. \A k \in DOMAIN applied : ~After(applied[k], <<epoch + 1, 0>>)
    <3> TAKE k \in DOMAIN applied
    <3>1. applied[k] \in Ids /\ ~After(applied[k], <<epoch, Seq0>>)
      BY <1>1, Elements DEF TabInv, CurrentId
    <3> QED BY <1>2, <3>1, IdParts DEF After
  <2> QED BY <1>1, <1>3, <2>1, <2>2 DEF TabInv, Reaches, Presented, After, AppliedInOrderOnce
<1> QED BY <1>4, <1>5, <1>7, <1>8 DEF LiveInv

(* A connection that is lost, refused or hung leaves nothing on its way.   *)
LEMMA LostLive == ASSUME LiveInv, Refuse \/ Break \/ Hang PROVE LiveInv'
<1>1. Types /\ RingInv /\ PipeInv /\ TabInv /\ AppliedInOrderOnce
  BY DEF LiveInv
<1>2. UNCHANGED <<server, lastId, store, seen, armed, applied>>
  BY DEF Refuse, Break, Hang
<1>3. source' \in {"connecting", "hung", "dead"} /\ pipe' = <<>>
  BY <1>1 DEF Refuse, Break, Hang, PipeInv
<1>4. asked' = asked \/ asked' = NotAsked
  BY DEF Refuse, Break, Hang
<1>5. Types'
  <2>1. asked' \in [from: Ids \cup {NoId}, at: Nat, sent: SUBSET Nat, resync: BOOLEAN]
    <3>1. NotAsked \in [from: Ids \cup {NoId}, at: Nat, sent: SUBSET Nat, resync: BOOLEAN]
      BY DEF NotAsked
    <3>2. asked \in [from: Ids \cup {NoId}, at: Nat, sent: SUBSET Nat, resync: BOOLEAN]
      BY <1>1 DEF Types
    <3> QED BY ONLY <1>4, <3>1, <3>2
  <2>2. pipe' \in Seq(Frames) /\ UNCHANGED <<log, epoch, ring, lastId, store, seen, armed, applied>>
    BY <1>2, <1>3 DEF server
  <2> QED BY <1>1, <1>3, <2>1, <2>2 DEF Types
<1>6. ServerOmitsNothing' /\ PipeInv'
  BY <1>3 DEF ServerOmitsNothing, PipeInv
<1>7. RingInv' /\ TabInv' /\ AppliedInOrderOnce'
  BY <1>1, <1>2, SameServer DEF TabInv, Reaches, Presented, AppliedInOrderOnce, After
<1> QED BY <1>5, <1>6, <1>7 DEF LiveInv

(* Opened anew, the address carries the id of the store.                   *)
LEMMA OpenLive == ASSUME LiveInv, Silence \/ Renew PROVE LiveInv'
<1>1. Types /\ RingInv /\ PipeInv /\ TabInv /\ AppliedInOrderOnce
  BY DEF LiveInv
<1>2. /\ UNCHANGED <<server, store, applied>> /\ source' = "connecting" /\ pipe' = <<>>
      /\ lastId' = [own |-> NoId, query |-> store] /\ asked' = NotAsked
      /\ seen' \in {{}, seen} /\ armed' \in BOOLEAN
  BY DEF Silence, Renew, Open
<1>3. Types'
  <2>1. lastId' \in [own: Ids \cup {NoId}, query: Ids \cup {NoId}] /\ seen' \subseteq Ids
    BY <1>1, <1>2 DEF Types
  <2>2. asked' \in [from: Ids \cup {NoId}, at: Nat, sent: SUBSET Nat, resync: BOOLEAN]
    BY <1>2 DEF NotAsked
  <2>3. pipe' \in Seq(Frames) /\ UNCHANGED <<log, epoch, ring, store, applied>>
    BY <1>2 DEF server
  <2>4. log \in [Epochs -> Seq(BOOLEAN)] /\ store \in Ids \cup {NoId} /\ source' = "connecting"
        /\ armed' \in BOOLEAN /\ ring \in Seq(Nat) /\ applied \in Seq(Ids) /\ epoch \in Epochs
        /\ \A e \in Epochs : Len(log[e]) <= MaxEvents /\ (e > epoch => log[e] = <<>>)
    BY <1>1, <1>2 DEF Types
  <2> QED BY ONLY <2>1, <2>2, <2>3, <2>4 DEF Types
<1>4. ServerOmitsNothing' /\ PipeInv'
  BY <1>2 DEF ServerOmitsNothing, PipeInv
<1>5. Presented' = store
  BY <1>2 DEF Presented
<1>6. RingInv' /\ TabInv' /\ AppliedInOrderOnce'
  BY <1>1, <1>2, <1>5, SameServer DEF TabInv, Reaches, AppliedInOrderOnce, After
<1> QED BY <1>3, <1>4, <1>6 DEF LiveInv

-------------------------------------------------------------------------------
LEMMA HandleLive == ASSUME LiveInv, Handle PROVE LiveInv'
<1> DEFINE frame == Head(pipe)
<1>1. Types /\ RingInv /\ ServerOmitsNothing /\ PipeInv /\ TabInv /\ AppliedInOrderOnce
  BY DEF LiveInv
<1>2. /\ pipe \in Seq(Frames) /\ pipe # <<>> /\ frame = pipe[1] /\ 1 \in DOMAIN pipe /\ frame \in Frames
      /\ frame.id \in Ids /\ frame.id # NoId
  BY <1>1, Elements, IdParts DEF Handle, Types
<1>3. /\ pipe' \in Seq(Frames) /\ \A k \in DOMAIN pipe' : pipe'[k] = pipe[k + 1] /\ k + 1 \in DOMAIN pipe /\ 1 < k + 1
      /\ DOMAIN pipe' \subseteq Nat
  BY <1>2 DEF Handle
<1>4. UNCHANGED <<server, source, asked>> /\ lastId' = [lastId EXCEPT !.own = frame.id] /\ source = "open"
  BY DEF Handle
<1>5. \/ UNCHANGED <<seen, store, armed, applied>>
      \/ /\ seen' = seen \cup {frame.id} /\ store' = frame.id /\ armed' = TRUE
         /\ \/ frame.type = "event" /\ applied' = Append(applied, frame.id)
            \/ frame.type # "event" /\ applied' = applied
  BY DEF Handle
<1>6. RingInv' /\ ServerOmitsNothing'
  BY <1>1, <1>4, SameServer DEF ServerOmitsNothing, server, Allowed
<1>7. applied \in Seq(Ids) /\ applied' \in Seq(Ids)
  <2>1. applied \in Seq(Ids) /\ Append(applied, frame.id) \in Seq(Ids)
    BY <1>1, <1>2, Extended DEF Types
  <2> QED BY <1>5, <2>1
<1>8. Types'
  BY <1>1, <1>2, <1>3, <1>4, <1>5, <1>7 DEF Types, server
<1>9. Presented' = frame.id
  BY <1>1, <1>2, <1>4 DEF Presented, Types
<1>10. CASE applied' = applied
  <2>1. PipeInv'
    <3>1. \A k \in DOMAIN pipe' : pipe'[k].id[1] = epoch /\ pipe'[k].id[2] <= Seq0
      BY <1>1, <1>3 DEF PipeInv
    <3>2. \A j, k \in DOMAIN pipe' : j < k /\ pipe'[j].type = "event" =>
            pipe'[k].type = "event" /\ After(pipe'[k].id, pipe'[j].id)
      BY <1>1, <1>3 DEF PipeInv
    <3>3. \A k \in DOMAIN pipe', a \in DOMAIN applied :
            /\ pipe'[k].type = "event" => After(pipe'[k].id, applied[a])
            /\ pipe'[k].type # "event" => ~After(applied[a], pipe'[k].id)
      BY <1>1, <1>3 DEF PipeInv
    <3>4. source' = "open" /\ epoch' = epoch /\ Seq0' = Seq0
      BY <1>1, <1>4, SameServer DEF server
    <3> QED BY ONLY <1>10, <3>1, <3>2, <3>3, <3>4 DEF PipeInv, After
  <2>2. Reaches(frame.id)
    <3>1. \A a \in DOMAIN applied : ~After(applied[a], frame.id)
      <4> TAKE a \in DOMAIN applied
      <4>1. applied[a] \in Ids
        BY <1>1, Elements
      <4>2. frame.type = "event" => After(frame.id, applied[a])
        BY <1>1, <1>2 DEF PipeInv
      <4>3. frame.type # "event" => ~After(applied[a], frame.id)
        BY <1>1, <1>2 DEF PipeInv
      <4> QED BY <1>2, <4>1, <4>2, <4>3, AfterIsOrder
    <3> QED BY <1>2, <3>1 DEF Reaches
  <2>3. store' = store \/ store' = frame.id
    BY <1>5
  <2>4. (\A k \in DOMAIN applied : ~After(applied[k], CurrentId))'
    BY <1>1, <1>4, <1>10, SameServer DEF TabInv, After
  <2>5. Reaches(store)' /\ Reaches(Presented)'
    BY <1>1, <1>9, <1>10, <2>2, <2>3 DEF TabInv, Reaches, After
  <2>6. AppliedInOrderOnce'
    BY <1>1, <1>10 DEF AppliedInOrderOnce, After
  <2> QED BY <1>6, <1>8, <2>1, <2>4, <2>5, <2>6 DEF LiveInv, TabInv
<1>11. CASE frame.type = "event" /\ applied' = Append(applied, frame.id) /\ store' = frame.id
  <2> DEFINE last == Len(applied) + 1
  <2>1. /\ DOMAIN applied' = 1..last /\ DOMAIN applied = 1..Len(applied) /\ Len(applied) \in Nat
        /\ applied'[last] = frame.id /\ \A k \in DOMAIN applied : applied'[k] = applied[k] /\ applied[k] \in Ids
    BY <1>1, <1>2, <1>7, <1>11, Extended, Elements
  <2>2. \A k \in DOMAIN applied : After(frame.id, applied[k]) /\ ~After(applied[k], frame.id)
    BY <1>1, <1>2, <1>11, <2>1, AfterIsOrder DEF PipeInv
  <2>3. ~After(frame.id, frame.id)
    BY <1>2, IdParts DEF After
  <2>4. \A k \in DOMAIN pipe' : /\ pipe'[k].type = "event" /\ pipe'[k].id \in Ids
                                /\ After(pipe'[k].id, frame.id)
    BY <1>1, <1>2, <1>3, <1>11, Elements DEF PipeInv
  <2>5. \A k \in DOMAIN pipe', a \in DOMAIN applied' : After(pipe'[k].id, applied'[a])
    <3> TAKE k \in DOMAIN pipe', a \in DOMAIN applied'
    <3>1. CASE a = last
      BY <2>1, <2>4, <3>1
    <3>2. CASE a \in DOMAIN applied
      <4>1. After(frame.id, applied[a]) /\ applied[a] \in Ids /\ applied'[a] = applied[a]
        BY <2>1, <2>2, <3>2
      <4> QED BY <1>2, <2>4, <4>1, AfterIsOrder
    <3> QED BY <2>1, <3>1, <3>2
  <2>6. PipeInv'
    <3>1. \A k \in DOMAIN pipe' : pipe'[k].id[1] = epoch /\ pipe'[k].id[2] <= Seq0
      BY <1>1, <1>3 DEF PipeInv
    <3>2. \A j, k \in DOMAIN pipe' : j < k /\ pipe'[j].type = "event" =>
            pipe'[k].type = "event" /\ After(pipe'[k].id, pipe'[j].id)
      BY <1>1, <1>3 DEF PipeInv
    <3>3. source' = "open" /\ epoch' = epoch /\ Seq0' = Seq0
      BY <1>1, <1>4, SameServer DEF server
    <3>4. \A k \in DOMAIN pipe' : pipe'[k].type = "event"
      BY <2>4
    <3> QED BY ONLY <2>5, <3>1, <3>2, <3>3, <3>4 DEF PipeInv, After
  <2>7. \A k \in DOMAIN applied' : ~After(applied'[k], frame.id)
    BY <2>1, <2>2, <2>3
  <2>8. \A k \in DOMAIN applied' : ~After(applied'[k], CurrentId)
    <3>1. ~After(frame.id, CurrentId)
      <4>1. frame.id[1] = epoch /\ frame.id[2] <= Seq0
        BY <1>1, <1>2 DEF PipeInv
      <4> QED BY <1>1, <1>2, <4>1, IdParts, CurrentIsId DEF After, CurrentId
    <3> QED BY <1>1, <2>1, <3>1 DEF TabInv
  <2>9. AppliedInOrderOnce'
    <3> SUFFICES ASSUME NEW j \in DOMAIN applied', NEW k \in DOMAIN applied', j < k
                 PROVE  After(applied'[k], applied'[j])
      BY DEF AppliedInOrderOnce, After
    <3>1. j \in DOMAIN applied
      BY <2>1
    <3>2. k = last \/ k \in DOMAIN applied
      BY <2>1
    <3> QED BY <1>1, <2>1, <2>2, <3>1, <3>2 DEF AppliedInOrderOnce
  <2>10. CurrentId' = CurrentId
    BY <1>1, <1>4, SameServer
  <2>11. TabInv'
    BY <1>2, <1>9, <1>11, <2>7, <2>8, <2>10 DEF TabInv, Reaches, After
  <2> QED BY <1>6, <1>8, <2>6, <2>9, <2>11 DEF LiveInv
<1> QED BY <1>5, <1>10, <1>11

-------------------------------------------------------------------------------
(* What a connection is greeted with.                                      *)

LEMMA Backfill ==
  ASSUME LiveInv, NEW from \in Ids, ~NeedsResync(from)
  PROVE  \A n \in 1..Seq0 : n > from[2] /\ Allowed(<<epoch, n>>) =>
           \E k \in MissedSince(from) : ring[k] = n
<1>1. Types /\ RingInv /\ from # NoId /\ Seq0 \in Nat
  BY IdParts, CurrentIsId DEF LiveInv
<1>2. from[1] = epoch /\ from[2] <= Seq0 /\ ~OutOfReach(from[2]) /\ from[2] \in Nat
  BY <1>1, IdParts DEF NeedsResync
<1> SUFFICES ASSUME NEW n \in 1..Seq0, n > from[2], Allowed(<<epoch, n>>)
             PROVE  \E k \in MissedSince(from) : ring[k] = n
  OBVIOUS
<1>3. ring # <<>> /\ ring \in Seq(Nat) /\ DOMAIN ring = 1..Len(ring) /\ Len(ring) \in Nat /\ Len(ring) > 0
      /\ Head(ring) = ring[1]
  BY <1>1 DEF RingInv, Types
<1>4. ring[1] = Seq0 - Len(ring) + 1 /\ ring[1] \in Nat
  BY <1>1, <1>3, Elements DEF RingInv
<1>5. n >= ring[1]
  BY <1>2, <1>3, <1>4 DEF OutOfReach
<1> DEFINE k == n - (Seq0 - Len(ring))
<1>6. k \in DOMAIN ring
  BY <1>1, <1>3, <1>4, <1>5
<1>7. ring[k] = n
  <2>1. ring[k] = Seq0 - Len(ring) + k
    BY <1>1, <1>6 DEF RingInv
  <2>2. n \in Nat
    BY <1>1
  <2> QED BY <1>1, <1>3, <2>1, <2>2
<1> QED BY <1>1, <1>6, <1>7 DEF MissedSince

LEMMA GreetingIs ==
  ASSUME LiveInv, NEW order \in InOrder(MissedSince(Presented)), pipe' = Greeting(Presented, order)
  PROVE  /\ pipe' \in Seq(Frames)
         /\ \A k \in DOMAIN pipe' : k \in Nat /\ pipe'[k].id[1] = epoch /\ pipe'[k].id[2] <= Seq0
         /\ \A k \in DOMAIN pipe' : pipe'[k].type # "event" => pipe'[k].id = CurrentId
         /\ \A j, k \in DOMAIN pipe' : j < k /\ pipe'[j].type = "event" =>
              pipe'[k].type = "event" /\ After(pipe'[k].id, pipe'[j].id)
         /\ \A k \in DOMAIN pipe' : pipe'[k].type = "event" =>
              /\ Presented # NoId /\ Presented[1] = epoch
              /\ pipe'[k].id[2] > Presented[2]
<1> DEFINE from == Presented
           hello == Frame("hello", CurrentId)
           resync == Frame("resync", CurrentId)
           backfill == [j \in DOMAIN order |-> Frame("event", <<epoch, ring[order[j]]>>)]
<1>1. Types /\ RingInv /\ Seq0 \in Nat /\ CurrentId \in Ids /\ epoch \in Epochs /\ Seq0 <= MaxEvents
  BY CurrentIsId DEF LiveInv, Types, Seq0
<1>2. hello \in Frames /\ resync \in Frames /\ hello.id = CurrentId /\ resync.id = CurrentId
      /\ hello.type = "hello" /\ resync.type = "resync" /\ CurrentId[1] = epoch /\ CurrentId[2] = Seq0
  BY <1>1 DEF Frame, Frames, CurrentId
<1>3. CASE NeedsResync(from)
  <2>1. pipe' = <<hello>> \o <<resync>>
    BY <1>3 DEF Greeting
  <2> HIDE DEF hello, resync
  <2>2. pipe' \in Seq(Frames) /\ DOMAIN pipe' = {1, 2} /\ pipe'[1] = hello /\ pipe'[2] = resync
    BY <1>2, <2>1
  <2> QED BY ONLY <1>1, <1>2, <2>2
<1>4. CASE ~NeedsResync(from)
  <2>1. pipe' = <<hello>> \o backfill
    BY <1>4 DEF Greeting
  <2>2. PICK size \in Nat : DOMAIN order = 1..size
    <3>1. Cardinality(MissedSince(from)) \in Nat
      <4>1. IsFiniteSet(DOMAIN ring) /\ MissedSince(from) \subseteq DOMAIN ring
        BY <1>1, FS_Interval DEF MissedSince, Types
      <4> QED BY <4>1, FS_Subset, FS_CardinalityType
    <3> QED BY <3>1 DEF InOrder
  <2>3. /\ order \in [1..size -> MissedSince(from)]
        /\ \A j, k \in 1..size : j < k => order[j] < order[k]
    BY <2>2 DEF InOrder
  <2>4. \A j \in 1..size :
          /\ order[j] \in DOMAIN ring /\ ring[order[j]] > from[2] /\ from # NoId
          /\ ring[order[j]] \in Nat /\ ring[order[j]] <= Seq0
          /\ <<epoch, ring[order[j]]>> \in Ids
    <3> TAKE j \in 1..size
    <3>1. order[j] \in MissedSince(from)
      BY <2>3
    <3>2. order[j] \in DOMAIN ring /\ ring[order[j]] > from[2] /\ from # NoId
      BY <3>1 DEF MissedSince
    <3>3. ring[order[j]] = Seq0 - Len(ring) + order[j] /\ Len(ring) \in Nat /\ order[j] \in 1..Len(ring)
      BY <1>1, <3>2 DEF RingInv, Types
    <3>4. ring[order[j]] \in Nat /\ ring[order[j]] <= Seq0
      BY <1>1, <3>3, <3>2, Elements
    <3> QED BY <1>1, <3>2, <3>4 DEF Ids
  <2>5. \A j, k \in 1..size : j < k => ring[order[j]] < ring[order[k]]
    <3> TAKE j, k \in 1..size
    <3>1. /\ ring[order[j]] = Seq0 - Len(ring) + order[j] /\ order[j] \in Nat
          /\ ring[order[k]] = Seq0 - Len(ring) + order[k] /\ order[k] \in Nat /\ Len(ring) \in Nat
      <4>1. Len(ring) \in Nat /\ DOMAIN ring = 1..Len(ring)
        BY <1>1 DEF Types
      <4>2. order[j] \in DOMAIN ring /\ order[k] \in DOMAIN ring
        BY <2>4
      <4> QED BY <1>1, <4>1, <4>2 DEF RingInv
    <3> QED BY <1>1, <2>3, <3>1
  <2>6. /\ backfill \in Seq(Frames) /\ Len(backfill) = size
        /\ \A j \in 1..size : backfill[j].type = "event" /\ backfill[j].id = <<epoch, ring[order[j]]>>
    <3>1. \A j \in 1..size : /\ backfill[j] \in Frames /\ backfill[j].type = "event"
                             /\ backfill[j].id = <<epoch, ring[order[j]]>>
      BY <2>2, <2>4 DEF Frame, Frames
    <3>2. backfill \in [1..size -> Frames]
      BY <2>2, <3>1
    <3> QED BY <2>2, <3>1, <3>2
  <2> HIDE DEF backfill, hello, resync
  <2>7. /\ pipe' \in Seq(Frames) /\ DOMAIN pipe' = 1..size + 1 /\ pipe'[1] = hello
        /\ \A k \in 1..size + 1 : k # 1 => k - 1 \in 1..size /\ pipe'[k] = backfill[k - 1]
    BY <1>2, <2>1, <2>2, <2>6
  <2>8. \A k \in DOMAIN pipe' : pipe'[k].type = "event" =>
          /\ k - 1 \in 1..size /\ pipe'[k].id = <<epoch, ring[order[k - 1]]>>
    BY <1>2, <2>6, <2>7
  <2>9. \A k \in DOMAIN pipe' : pipe'[k].type # "event" => k = 1 /\ pipe'[k].id = CurrentId
    BY <1>2, <2>6, <2>7
  <2>10. \A k \in DOMAIN pipe' : k \in Nat /\ pipe'[k].id[1] = epoch /\ pipe'[k].id[2] <= Seq0
    <3> TAKE k \in DOMAIN pipe'
    <3>1. k \in Nat
      BY <2>2, <2>7
    <3>2. CASE pipe'[k].type = "event"
      <4>1. k - 1 \in 1..size /\ pipe'[k].id = <<epoch, ring[order[k - 1]]>>
        BY <2>8, <3>2
      <4>2. ring[order[k - 1]] <= Seq0
        BY <2>4, <4>1
      <4> QED BY <3>1, <4>1, <4>2
    <3>3. CASE pipe'[k].type # "event"
      BY <1>1, <1>2, <2>9, <3>1, <3>3
    <3> QED BY <3>2, <3>3
  <2>11. \A j, k \in DOMAIN pipe' : j < k /\ pipe'[j].type = "event" =>
           pipe'[k].type = "event" /\ After(pipe'[k].id, pipe'[j].id)
    BY <1>1, <2>2, <2>4, <2>5, <2>7, <2>8, <2>9 DEF After
  <2>12. \A k \in DOMAIN pipe' : pipe'[k].type = "event" =>
           from # NoId /\ from[1] = epoch /\ pipe'[k].id[2] > from[2]
    <3> SUFFICES ASSUME NEW k \in DOMAIN pipe', pipe'[k].type = "event"
                 PROVE  from # NoId /\ from[1] = epoch /\ pipe'[k].id[2] > from[2]
      OBVIOUS
    <3>1. k - 1 \in 1..size /\ pipe'[k].id = <<epoch, ring[order[k - 1]]>>
      BY <2>8
    <3>2. from # NoId /\ ring[order[k - 1]] > from[2]
      BY <2>4, <3>1
    <3> QED BY <1>4, <3>1, <3>2 DEF NeedsResync
  <2> QED BY <2>7, <2>9, <2>10, <2>11, <2>12
<1> QED BY <1>3, <1>4

LEMMA ConnectLive == ASSUME LiveInv, Connect PROVE LiveInv'
<1> DEFINE from == Presented
<1>1. Types /\ RingInv /\ ServerOmitsNothing /\ PipeInv /\ TabInv /\ AppliedInOrderOnce
  BY DEF LiveInv
<1>2. UNCHANGED <<server, lastId, store, seen, applied>> /\ source' = "open" /\ armed' = TRUE
  BY DEF Connect
<1>3. from \in Ids \cup {NoId} /\ Presented' = from
  BY <1>1, <1>2 DEF Presented, Types
<1>4. asked' = [from |-> from, at |-> Seq0, resync |-> NeedsResync(from),
                sent |-> IF NeedsResync(from) THEN {} ELSE {ring[k] : k \in MissedSince(from)}]
  BY DEF Connect
<1>5. PICK order \in InOrder(MissedSince(from)) : pipe' = Greeting(from, order)
  BY DEF Connect
<1>6. /\ pipe' \in Seq(Frames)
      /\ \A k \in DOMAIN pipe' : k \in Nat /\ pipe'[k].id[1] = epoch /\ pipe'[k].id[2] <= Seq0
      /\ \A k \in DOMAIN pipe' : pipe'[k].type # "event" => pipe'[k].id = CurrentId
      /\ \A j, k \in DOMAIN pipe' : j < k /\ pipe'[j].type = "event" =>
           pipe'[k].type = "event" /\ After(pipe'[k].id, pipe'[j].id)
      /\ \A k \in DOMAIN pipe' : pipe'[k].type = "event" =>
           /\ from # NoId /\ from[1] = epoch
           /\ pipe'[k].id[2] > from[2]
  BY <1>5, GreetingIs
<1>7. Seq0' = Seq0 /\ CurrentId' = CurrentId /\ RingInv' /\ Seq0 \in Nat /\ epoch' = epoch
  BY <1>1, <1>2, SameServer, CurrentIsId DEF server
<1>8. Types'
  <2>1. asked' \in [from: Ids \cup {NoId}, at: Nat, sent: SUBSET Nat, resync: BOOLEAN]
    <3>1. {ring[k] : k \in MissedSince(from)} \subseteq Nat
      BY <1>1, Elements DEF MissedSince
    <3>2. NeedsResync(from) \in BOOLEAN
      BY DEF NeedsResync
    <3> QED BY <1>3, <1>4, <1>7, <3>1, <3>2
  <2> QED BY <1>1, <1>2, <1>6, <2>1 DEF Types, server
<1>9. ServerOmitsNothing'
  <2> SUFFICES ASSUME ~NeedsResync(from), NEW n \in 1..Seq0, Allowed(<<epoch, n>>),
                      IF from = NoId THEN n > Seq0 ELSE n > from[2]
               PROVE  n \in {ring[k] : k \in MissedSince(from)}
    BY <1>2, <1>4, <1>7 DEF ServerOmitsNothing, Allowed, server
  <2>1. from \in Ids
    BY <1>3, <1>7
  <2> QED BY <2>1, Backfill, IdParts
<1>10. PipeInv'
  <2>1. \A k \in DOMAIN pipe', a \in DOMAIN applied :
          /\ pipe'[k].type = "event" => After(pipe'[k].id, applied[a])
          /\ pipe'[k].type # "event" => ~After(applied[a], pipe'[k].id)
    <3> TAKE k \in DOMAIN pipe', a \in DOMAIN applied
    <3>1. applied[a] \in Ids /\ ~After(applied[a], CurrentId)
      BY <1>1, Elements DEF TabInv
    <3>2. ASSUME pipe'[k].type = "event" PROVE After(pipe'[k].id, applied[a])
      <4>1. /\ from \in Ids /\ from[1] = epoch /\ pipe'[k].id[2] > from[2] /\ pipe'[k].id[1] = epoch
            /\ pipe'[k].id \in Ids
        <5>1. pipe'[k] \in Frames
          BY <1>6
        <5> QED BY <1>3, <1>6, <3>2, <5>1 DEF Frames
      <4>2. ~After(applied[a], from)
        BY <1>1, <4>1, IdParts DEF TabInv, Reaches
      <4> QED BY <3>1, <4>1, <4>2, IdParts DEF After
    <3>3. ASSUME pipe'[k].type # "event" PROVE ~After(applied[a], pipe'[k].id)
      BY <1>6, <3>1, <3>3
    <3> QED BY <3>2, <3>3
  <2> QED BY ONLY <1>2, <1>6, <1>7, <2>1 DEF PipeInv, After
<1>11. TabInv' /\ AppliedInOrderOnce'
  BY <1>1, <1>2, <1>3, <1>7 DEF TabInv, Reaches, AppliedInOrderOnce, After
<1> QED BY <1>7, <1>8, <1>9, <1>10, <1>11 DEF LiveInv

-------------------------------------------------------------------------------
LEMMA StepLive == LiveInv /\ [Next]_vars => LiveInv'
<1> SUFFICES ASSUME LiveInv, [Next]_vars PROVE LiveInv'
  OBVIOUS
<1>1. ASSUME NEW mine \in BOOLEAN, Publish(mine) PROVE LiveInv'
  BY <1>1, PublishLive
<1>2. CASE Restart
  BY <1>2, RestartLive
<1>3. CASE Connect
  BY <1>3, ConnectLive
<1>4. CASE Refuse \/ Break \/ Hang
  BY <1>4, LostLive
<1>5. CASE Handle
  BY <1>5, HandleLive
<1>6. CASE Silence \/ Renew
  BY <1>6, OpenLive
<1>7. CASE UNCHANGED vars
  BY <1>7 DEF vars, LiveInv, Types, RingInv, ServerOmitsNothing, PipeInv, TabInv, AppliedInOrderOnce,
    Seq0, CurrentId, Allowed, Reaches, Presented, After
<1> QED BY <1>1, <1>2, <1>3, <1>4, <1>5, <1>6, <1>7 DEF Next

LEMMA LiveIsFaithful == LiveInv => StreamIsFaithful
<1> SUFFICES ASSUME LiveInv PROVE TypeOK
  BY DEF LiveInv, StreamIsFaithful
<1>1. Types /\ RingInv
  BY DEF LiveInv
<1>2. \A k \in DOMAIN pipe : pipe[k].type \in {"hello", "resync", "event"} /\ pipe[k].id \in Ids
  <2>1. \A frame \in Frames : frame.type \in {"hello", "resync", "event"}
    BY DEF Frames
  <2> QED BY <1>1, <2>1, Elements
<1> QED BY <1>1, <1>2 DEF TypeOK, Types, RingInv

(* The gateway keeps "no third outcome" (live-ring.ts): on an open         *)
(* connection all that the tab may see is sent, or the demand to read      *)
(* again; and useEventStream.ts applies events in their order and once.    *)
THEOREM LiveStreamIsFaithful == Spec => []StreamIsFaithful
<1>1. Spec => []LiveInv
  BY InitLive, StepLive, PTL DEF Spec
<1> QED BY <1>1, LiveIsFaithful, PTL

HIDE LiveAssumption DEF LiveAssumption
-------------------------------------------------------------------------------
(* The rows and the tokens made for them, the calls that lead a rotation   *)
(* or share one, and what becomes of every token.                          *)
Leading == S!InRotation \ {"joined"}
Lost(k) == k \in excused \/ row[of[k]].revoked

RowsInv ==
  /\ \A k \in 1..made : of[k] \in S!Sessions
  /\ \A s \in S!Sessions : row[s].token # 0 => of[row[s].token] = s
  /\ \A s \in S!Sessions : row[s].prev # 0 => of[row[s].prev] = s

(* A token has one rotation at a time, whose pair nobody has been given    *)
(* yet; one that looks for the reason has found a token that is lost.      *)
LeadersInv ==
  /\ \A r \in S!Requests : req[r].at \in S!InRotation \cup {"closing"} => req[r].token # 0
  /\ \A r \in S!Requests : req[r].at \in Leading =>
       req[r].token \in rotating /\ recent[req[r].token] = 0
  /\ \A q, r \in S!Requests :
       req[q].at \in Leading /\ req[r].at \in Leading /\ req[q].token = req[r].token => q = r
  /\ \A r \in S!Requests : req[r].at \in S!Rotated =>
       req[r].got # 0 /\ of[req[r].got] = of[req[r].token]
  /\ \A r \in S!Requests : req[r].at \in {"looking", "revoking"} => Lost(req[r].token)
  /\ \A r \in S!Requests : req[r].at = "barring" => disabled

(* A tab has one call, and is refused a refresh for a spent token only.    *)
TabsInv ==
  /\ \A q, r \in S!Requests : req[q].tab = req[r].tab /\ req[r].tab # NoTab => q = r
  /\ \A r \in S!Requests :
       req[r].at = "refused" /\ req[r].kind = "refresh" => S!Spent(req[r].token)

RenewInv ==
  \A k \in 1..made :
    \/ Lost(k) \/ row[of[k]].token = k \/ recent[k] # 0
    \/ \E r \in S!Requests : req[r].token = k /\ req[r].at \in S!Rotated

SessionInv == S!TypeOK /\ RowsInv /\ LeadersInv /\ TabsInv /\ RenewInv

CallKinds == {"refresh", "logout"}
Places == S!InRotation \cup {"none", "sent", "closing", "ok", "refused", "unavailable", "done"}
CallsUpTo(n) ==
  [tab : Tabs \cup {NoTab}, kind : CallKinds, token : 0..n, at : Places, got : 0..n]

LEMMA SessionNumbers ==
  /\ MaxTokens \in Nat /\ MaxSessions \in Nat /\ MaxRequests \in Nat
  /\ NoTab \notin Tabs
BY EndsAssumption DEF EndsAssumption

(* The type invariant, part by part.                                       *)
LEMMA SessionTypes ==
  ASSUME S!TypeOK
  PROVE  /\ made \in Nat /\ made <= MaxTokens /\ recent \in [S!Tokens -> 0..made]
         /\ of \in [S!Tokens -> 0..MaxSessions] /\ rotating \subseteq S!Tokens
         /\ row \in [S!Sessions -> [token : 0..made, prev : 0..made, revoked : BOOLEAN]]
         /\ req \in [S!Requests -> CallsUpTo(made)]
         /\ jar \in 0..made /\ tab \in [Tabs -> {"form", "app", "stale", "boot"}]
BY SessionNumbers DEF S!TypeOK, CallsUpTo, CallKinds, Places, S!Tokens

LEMMA SessionTyped ==
  ASSUME NEW n \in 0..MaxTokens, made = n, recent \in [S!Tokens -> 0..n],
         of \in [S!Tokens -> 0..MaxSessions], rotating \subseteq S!Tokens,
         row \in [S!Sessions -> [token : 0..n, prev : 0..n, revoked : BOOLEAN]],
         req \in [S!Requests -> CallsUpTo(n)],
         jar \in 0..n, tab \in [Tabs -> {"form", "app", "stale", "boot"}]
  PROVE  S!TypeOK
BY DEF S!TypeOK, CallsUpTo, CallKinds, Places

(* Every call that shares the rotation of a token gets its outcome.        *)
LEMMA SettleDoes ==
  ASSUME S!TypeOK, NEW k, NEW outcome \in {"ok", "refused", "unavailable"}, NEW got \in 0..made,
         S!Settle(k, outcome, got)
  PROVE  /\ rotating' = rotating \ {k}
         /\ req' \in [S!Requests -> CallsUpTo(made)]
         /\ \A q \in S!Requests :
              /\ req'[q].token = req[q].token /\ req'[q].tab = req[q].tab
              /\ req'[q].kind = req[q].kind
         /\ \A q \in S!Requests : req[q].token = k /\ req[q].at \in S!InRotation =>
              req'[q].at = outcome /\ req'[q].got = got
         /\ \A q \in S!Requests : ~(req[q].token = k /\ req[q].at \in S!InRotation) =>
              req'[q] = req[q]
<1>1. req \in [S!Requests -> CallsUpTo(made)]
  BY SessionTypes
<1>2. \A q \in S!Requests : req[q] \in CallsUpTo(made)
  BY <1>1
<1>3. \A q \in S!Requests :
        [req[q] EXCEPT !.at = outcome, !.got = got] \in CallsUpTo(made)
  BY <1>2 DEF CallsUpTo, Places
<1>4. req' = [q \in S!Requests |->
                IF req[q].token = k /\ req[q].at \in S!InRotation
                THEN [req[q] EXCEPT !.at = outcome, !.got = got] ELSE req[q]]
  BY DEF S!Settle
<1>5. req' \in [S!Requests -> CallsUpTo(made)]
  BY <1>2, <1>3, <1>4
<1>6. rotating' = rotating \ {k}
  BY DEF S!Settle
<1> QED BY <1>2, <1>4, <1>5, <1>6 DEF CallsUpTo

(* One call goes on to another place.                                      *)
LEMMA MoveDoes ==
  ASSUME S!TypeOK, NEW r \in S!Requests, NEW at \in Places, S!Move(r, at)
  PROVE  /\ req' \in [S!Requests -> CallsUpTo(made)]
         /\ \A q \in S!Requests \ {r} : req'[q] = req[q]
         /\ req'[r].token = req[r].token /\ req'[r].tab = req[r].tab
         /\ req'[r].kind = req[r].kind /\ req'[r].got = req[r].got /\ req'[r].at = at
<1>1. req \in [S!Requests -> CallsUpTo(made)]
  BY SessionTypes
<1>2. [req[r] EXCEPT !.at = at] \in CallsUpTo(made)
  BY <1>1 DEF CallsUpTo
<1>3. req' = [req EXCEPT ![r] = [req[r] EXCEPT !.at = at]]
  BY <1>1 DEF S!Move
<1> QED BY <1>1, <1>2, <1>3 DEF CallsUpTo

LEMMA InitSession == S!Init => SessionInv
<1> SUFFICES ASSUME S!Init PROVE SessionInv
  OBVIOUS
<1> USE SessionNumbers
<1>1. /\ made = 0 /\ recent = [k \in S!Tokens |-> 0] /\ of = [k \in S!Tokens |-> 0]
      /\ rotating = {} /\ jar = 0 /\ tab = [t \in Tabs |-> "form"]
      /\ row = [s \in S!Sessions |-> S!NoRow] /\ req = [r \in S!Requests |-> S!NoRequest]
  BY DEF S!Init
<1>2. S!NoRow \in [token : 0..0, prev : 0..0, revoked : BOOLEAN]
  BY DEF S!NoRow
<1>3. S!NoRequest \in CallsUpTo(0)
  BY DEF S!NoRequest, CallsUpTo, CallKinds, Places
<1>4. S!TypeOK
  BY <1>1, <1>2, <1>3, SessionTyped
<1>5. \A r \in S!Requests : req[r].at = "none" /\ req[r].tab = NoTab
  BY <1>1 DEF S!NoRequest
<1>6. \A s \in S!Sessions : row[s].token = 0 /\ row[s].prev = 0
  BY <1>1 DEF S!NoRow
<1>7. 1..made = {}
  BY <1>1
<1> QED BY <1>4, <1>5, <1>6, <1>7
        DEF SessionInv, RowsInv, LeadersInv, TabsInv, RenewInv, Leading, S!InRotation, S!Rotated

LEMMA SessionTypedNext ==
  ASSUME NEW n \in 0..MaxTokens, made' = n, recent' \in [S!Tokens -> 0..n],
         of' \in [S!Tokens -> 0..MaxSessions], rotating' \subseteq S!Tokens,
         row' \in [S!Sessions -> [token : 0..n, prev : 0..n, revoked : BOOLEAN]],
         req' \in [S!Requests -> CallsUpTo(n)],
         jar' \in 0..n, tab' \in [Tabs -> {"form", "app", "stale", "boot"}]
  PROVE  S!TypeOK'
BY DEF S!TypeOK, CallsUpTo, CallKinds, Places

(* What is lost or spent stays so.                                         *)
LEMMA LostStays ==
  ASSUME S!TypeOK, RowsInv, \A k \in 1..made : of'[k] = of[k],
         \A s \in S!Sessions : row[s].revoked => row'[s].revoked,
         excused \subseteq excused', disabled => disabled'
  PROVE  \A k \in 0..made : (k # 0 /\ Lost(k) => Lost(k)') /\ (S!Spent(k) => S!Spent(k)')
<1> SUFFICES ASSUME NEW k \in 0..made
             PROVE  (k # 0 /\ Lost(k) => Lost(k)') /\ (S!Spent(k) => S!Spent(k)')
  OBVIOUS
<1>1. CASE k = 0
  BY <1>1 DEF S!Spent
<1>2. CASE k # 0
  <2>1. k \in 1..made
    BY <1>2, SessionTypes
  <2>2. of[k] \in S!Sessions /\ of'[k] = of[k]
    BY <2>1 DEF RowsInv
  <2> QED BY <2>1, <2>2 DEF Lost, S!Spent
<1> QED BY <1>1, <1>2

(* The steps of a tab that touch neither the rows nor the gateway.         *)
LEMMA SessionBrowser ==
  ASSUME SessionInv, NEW t \in Tabs, S!Expire(t) \/ S!Refresh(t) \/ S!Logout(t) \/ S!Reload(t)
  PROVE  SessionInv'
<1> USE SessionNumbers
<1>t. S!TypeOK
  BY DEF SessionInv
<1>1. UNCHANGED <<row, made, of, disabled, recent, rotating, jar, excused>>
  BY DEF S!Expire, S!Refresh, S!Logout, S!Reload, S!Call, S!base, S!gateway, S!browser
<1>2. tab' \in [Tabs -> {"form", "app", "stale", "boot"}]
  BY <1>t, SessionTypes DEF S!Expire, S!Refresh, S!Logout, S!Reload, S!Call, S!browser
<1>3. /\ req' \in [S!Requests -> CallsUpTo(made)]
      /\ \A q \in S!Requests :
           \/ /\ req'[q].at = req[q].at /\ req'[q].token = req[q].token
              /\ req'[q].kind = req[q].kind /\ req'[q].got = req[q].got
           \/ req[q].at = "none" /\ req'[q].at = "sent"
      /\ \A q, r \in S!Requests : req'[q].tab = req'[r].tab /\ req'[r].tab # NoTab => q = r
  <2>1. CASE S!Expire(t)
    BY <1>t, <2>1, SessionTypes DEF S!Expire, SessionInv, TabsInv
  <2>2. ASSUME NEW kind \in CallKinds, S!Call(t, kind)
        PROVE  <1>3
    <3>1. PICK r \in S!Requests :
            req[r].at = "none" /\ req' = [req EXCEPT ![r] =
               [tab |-> t, kind |-> kind, token |-> jar, at |-> "sent", got |-> 0]]
      BY <2>2 DEF S!Call
    <3>2. [tab |-> t, kind |-> kind, token |-> jar, at |-> "sent", got |-> 0] \in CallsUpTo(made)
      BY <1>t, SessionTypes DEF CallsUpTo, Places
    <3>3. \A q \in S!Requests : req[q].tab # t
      BY <2>2 DEF S!Call, S!Waiting
    <3> QED BY <1>t, <3>1, <3>2, <3>3, SessionTypes DEF SessionInv, TabsInv
  <2>3. CASE S!Reload(t)
    <3>1. req' = [r \in S!Requests |->
                    IF req[r].tab = t THEN [req[r] EXCEPT !.tab = NoTab] ELSE req[r]]
      BY <2>3 DEF S!Reload
    <3>2. \A r \in S!Requests : req[r] \in CallsUpTo(made)
      BY <1>t, SessionTypes
    <3>3. \A r \in S!Requests : [req[r] EXCEPT !.tab = NoTab] \in CallsUpTo(made)
      BY <3>2 DEF CallsUpTo
    <3>4. req' \in [S!Requests -> CallsUpTo(made)]
      BY <3>1, <3>2, <3>3
    <3> QED BY <3>1, <3>2, <3>4 DEF CallsUpTo, SessionInv, TabsInv
  <2> QED BY <2>1, <2>2, <2>3 DEF S!Refresh, S!Logout, CallKinds
<1>4. S!TypeOK'
  BY <1>1, <1>2, <1>3, <1>t, SessionTypes, SessionTypedNext
<1>5. RowsInv'
  BY <1>1 DEF SessionInv, RowsInv
<1>6. \A k : Lost(k)' = Lost(k) /\ S!Spent(k)' = S!Spent(k)
  BY <1>1 DEF Lost, S!Spent
<1>7. LeadersInv'
  BY <1>1, <1>3, <1>6 DEF SessionInv, LeadersInv, Leading, S!InRotation, S!Rotated
<1>8. TabsInv'
  BY <1>3, <1>6 DEF SessionInv, TabsInv
<1>9. RenewInv'
  BY <1>1, <1>3, <1>6 DEF SessionInv, RenewInv, S!Rotated
<1> QED BY <1>4, <1>5, <1>7, <1>8, <1>9 DEF SessionInv

LEMMA SessionLogin == ASSUME SessionInv, NEW t \in Tabs, S!Login(t) PROVE SessionInv'
<1> USE SessionNumbers
<1>t. S!TypeOK
  BY DEF SessionInv
<1>n. made + 1 \in 0..MaxTokens /\ made + 1 \in S!Tokens /\ made' = made + 1
  BY <1>t, SessionTypes DEF S!Login, S!Tokens
<1>1. UNCHANGED <<disabled, recent, rotating, req, excused>> /\ jar' = made + 1
  BY DEF S!Login, S!gateway
<1>2. PICK s \in S!Sessions : /\ row[s] = S!NoRow
                              /\ row' = [row EXCEPT ![s].token = made + 1]
                              /\ of' = [of EXCEPT ![made + 1] = s]
  <2>1. PICK s \in S!Sessions : /\ \A q \in S!Sessions : row[q] = S!NoRow <=> q >= s
                                /\ row' = [row EXCEPT ![s].token = made + 1]
                                /\ of' = [of EXCEPT ![made + 1] = s]
    BY Zenon DEF S!Login
  <2>2. s >= s
    BY DEF S!Sessions
  <2> QED BY <2>1, <2>2, Zenon
<1>3. /\ row' \in [S!Sessions -> [token : 0..made + 1, prev : 0..made + 1, revoked : BOOLEAN]]
      /\ \A q \in S!Sessions \ {s} : row'[q] = row[q]
      /\ row'[s].token = made + 1 /\ row'[s].prev = 0 /\ ~row'[s].revoked
      /\ row[s].token = 0 /\ row[s].prev = 0 /\ ~row[s].revoked
  <2>1. \A q \in S!Sessions : row[q] \in [token : 0..made + 1, prev : 0..made + 1, revoked : BOOLEAN]
    BY <1>t, SessionTypes
  <2>2. row' = [row EXCEPT ![s] = [row[s] EXCEPT !.token = made + 1]]
    BY <1>2
  <2>3. [row[s] EXCEPT !.token = made + 1]
          \in [token : 0..made + 1, prev : 0..made + 1, revoked : BOOLEAN]
    BY <2>1, <1>n, <1>t, SessionTypes
  <2> QED BY <1>t, <1>2, <2>1, <2>2, <2>3, SessionTypes DEF S!NoRow
<1>4. of' \in [S!Tokens -> 0..MaxSessions] /\ of'[made + 1] = s
      /\ \A k \in 1..made : of'[k] = of[k]
  BY <1>t, <1>2, <1>n, SessionTypes DEF S!Sessions, S!Tokens
<1>5. tab' \in [Tabs -> {"form", "app", "stale", "boot"}]
  BY <1>t, SessionTypes DEF S!Login
<1>6. S!TypeOK'
  <2>1. recent' \in [S!Tokens -> 0..made + 1]
    BY <1>t, <1>1, SessionTypes
  <2>2. req' \in [S!Requests -> CallsUpTo(made + 1)]
    BY <1>t, <1>1, SessionTypes DEF CallsUpTo
  <2>3. jar' \in 0..made + 1 /\ rotating' \subseteq S!Tokens
    BY <1>t, <1>1, SessionTypes
  <2> QED BY <1>n, <1>3, <1>4, <1>5, <2>1, <2>2, <2>3, SessionTypedNext
<1>7. RowsInv'
  <2>1. \A k \in 1..made + 1 : of'[k] \in S!Sessions
    BY <1>n, <1>4, <1>t, SessionTypes DEF SessionInv, RowsInv
  <2>2. \A q \in S!Sessions : /\ (row'[q].token # 0 => of'[row'[q].token] = q)
                              /\ (row'[q].prev # 0 => of'[row'[q].prev] = q)
    <3> TAKE q \in S!Sessions
    <3>1. CASE q = s
      BY <3>1, <1>3, <1>4
    <3>2. CASE q # s
      <4>1. row[q].token \in 0..made /\ row[q].prev \in 0..made
        BY <1>t, SessionTypes
      <4> QED BY <3>2, <4>1, <1>3, <1>4 DEF SessionInv, RowsInv
    <3> QED BY <3>1, <3>2
  <2> QED BY <1>n, <2>1, <2>2 DEF RowsInv
<1>8. \A k \in 0..made : (k # 0 /\ Lost(k) => Lost(k)') /\ (S!Spent(k) => S!Spent(k)')
  BY <1>t, <1>1, <1>3, <1>4, LostStays DEF SessionInv
<1>9. LeadersInv'
  <2>1. \A r \in S!Requests : req[r].token \in 0..made /\ req[r].got \in 0..made
    BY <1>t, SessionTypes DEF CallsUpTo
  <2> QED BY <1>1, <1>4, <1>8, <2>1
          DEF SessionInv, LeadersInv, Leading, S!InRotation, S!Rotated
<1>10. TabsInv'
  <2>1. \A r \in S!Requests : req[r].token \in 0..made
    BY <1>t, SessionTypes DEF CallsUpTo
  <2> QED BY <1>1, <1>8, <2>1 DEF SessionInv, TabsInv
<1>11. RenewInv'
  <2> SUFFICES ASSUME NEW k \in 1..made + 1
               PROVE  (\/ Lost(k) \/ row[of[k]].token = k \/ recent[k] # 0
                       \/ \E r \in S!Requests : req[r].token = k /\ req[r].at \in S!Rotated)'
    BY <1>n DEF RenewInv
  <2>1. CASE k = made + 1
    BY <2>1, <1>3, <1>4
  <2>2. CASE k # made + 1
    <3>1. k \in 1..made /\ of[k] \in S!Sessions
      BY <2>2, <1>t, SessionTypes DEF SessionInv, RowsInv
    <3>2. row[of[k]].token = k => row'[of[k]].token = k
      BY <3>1, <1>3
    <3> QED BY <1>1, <1>4, <1>8, <3>1, <3>2 DEF SessionInv, RenewInv
  <2> QED BY <2>1, <2>2
<1> QED BY <1>6, <1>7, <1>9, <1>10, <1>11 DEF SessionInv

(* The end of a call at its tab, with or without its answer.               *)
LEMMA SessionDeliver ==
  ASSUME SessionInv, NEW r \in S!Requests, S!Deliver(r) PROVE SessionInv'
<1> USE SessionNumbers
<1>t. S!TypeOK
  BY DEF SessionInv
<1>1. UNCHANGED <<row, made, of, disabled, recent, rotating, excused>>
  BY DEF S!Deliver, S!Receive, S!Lose, S!base, S!gateway
<1>a. req[r].at \in {"ok", "refused", "unavailable"}
  BY DEF S!Deliver, S!Receive, S!Lose
<1>2. /\ req' \in [S!Requests -> CallsUpTo(made)]
      /\ \A q \in S!Requests \ {r} : req'[q] = req[q]
      /\ req'[r].at = "done" /\ req'[r].tab = NoTab
  <2>1. req' = [req EXCEPT ![r] = [S!NoRequest EXCEPT !.at = "done"]]
    BY DEF S!Deliver, S!Receive, S!Lose, S!Done
  <2>2. [S!NoRequest EXCEPT !.at = "done"] \in CallsUpTo(made)
    BY <1>t, SessionTypes DEF S!NoRequest, CallsUpTo, CallKinds, Places
  <2>3. [S!NoRequest EXCEPT !.at = "done"].at = "done"
        /\ [S!NoRequest EXCEPT !.at = "done"].tab = NoTab
    BY DEF S!NoRequest
  <2> QED BY <1>t, <2>1, <2>2, <2>3, SessionTypes
<1>3. jar' \in 0..made /\ tab' \in [Tabs -> {"form", "app", "stale", "boot"}]
  <2>1. req[r] \in CallsUpTo(made)
    BY <1>t, SessionTypes
  <2>2. req[r].tab # NoTab => req[r].tab \in Tabs
    BY <2>1 DEF CallsUpTo
  <2>3. \A outcome : req[r].tab # NoTab =>
          S!Shown(r, outcome) \in {"form", "app", "stale", "boot"}
    BY <1>t, <2>2, SessionTypes DEF S!Shown
  <2>4. req[r].got \in 0..made
    BY <2>1 DEF CallsUpTo
  <2> QED BY <1>t, <2>2, <2>3, <2>4, SessionTypes
          DEF S!Deliver, S!Receive, S!Lose, S!browser
<1>4. S!TypeOK'
  BY <1>1, <1>2, <1>3, <1>t, SessionTypes, SessionTypedNext
<1>5. RowsInv'
  BY <1>1 DEF SessionInv, RowsInv
<1>6. \A k : Lost(k)' = Lost(k) /\ S!Spent(k)' = S!Spent(k)
  BY <1>1 DEF Lost, S!Spent
<1>7. LeadersInv'
  BY <1>1, <1>2, <1>6 DEF SessionInv, LeadersInv, Leading, S!InRotation, S!Rotated
<1>8. TabsInv'
  BY <1>2, <1>6 DEF SessionInv, TabsInv
<1>9. RenewInv'
  BY <1>1, <1>2, <1>6, <1>a DEF SessionInv, RenewInv, S!Rotated
<1> QED BY <1>4, <1>5, <1>7, <1>8, <1>9 DEF SessionInv

(* A refresh up to its first await.                                        *)
LEMMA SessionBegin ==
  ASSUME SessionInv, NEW r \in S!Requests, S!Begin(r) PROVE SessionInv'
<1> USE SessionNumbers
<1>t. S!TypeOK
  BY DEF SessionInv
<1> DEFINE k == req[r].token
<1>1. UNCHANGED <<row, made, of, disabled, recent, jar, tab, excused>>
  BY DEF S!Begin, S!base, S!browser
<1>a. req[r].at = "sent" /\ req[r] \in CallsUpTo(made)
  BY <1>t, SessionTypes DEF S!Begin
<1>2. /\ req' \in [S!Requests -> CallsUpTo(made)]
      /\ \A q \in S!Requests \ {r} : req'[q] = req[q]
      /\ req'[r].token = k /\ req'[r].tab = req[r].tab /\ req'[r].kind = req[r].kind
      /\ \/ k = 0 /\ req'[r].at = "refused" /\ rotating' = rotating
         \/ k # 0 /\ req'[r].at = "ok" /\ rotating' = rotating
         \/ k # 0 /\ req'[r].at = "joined" /\ rotating' = rotating
         \/ /\ k # 0 /\ req'[r].at = "rotating" /\ rotating' = rotating \cup {k}
            /\ k \notin rotating /\ recent[k] = 0
  <2>1. CASE k = 0
    BY <1>t, <2>1, MoveDoes DEF S!Begin, Places
  <2>2. CASE k # 0 /\ recent[k] # 0
    <3>1. req' = [req EXCEPT ![r].at = "ok", ![r].got = recent[k]] /\ rotating' = rotating
      BY <2>2 DEF S!Begin
    <3>2. k \in S!Tokens /\ recent[k] \in 0..made
      BY <1>a, <1>t, <2>2, SessionTypes DEF CallsUpTo, S!Tokens
    <3>3. [req[r] EXCEPT !.at = "ok", !.got = recent[k]] \in CallsUpTo(made)
      BY <1>a, <3>2 DEF CallsUpTo, Places
    <3>4. req' = [req EXCEPT ![r] = [req[r] EXCEPT !.at = "ok", !.got = recent[k]]]
      BY <3>1, <1>t, SessionTypes
    <3> QED BY <2>2, <1>a, <1>t, <3>1, <3>3, <3>4, SessionTypes DEF CallsUpTo
  <2>3. CASE k # 0 /\ recent[k] = 0 /\ k \in rotating
    BY <1>t, <2>3, MoveDoes DEF S!Begin, Places, S!InRotation
  <2>4. CASE k # 0 /\ recent[k] = 0 /\ k \notin rotating
    BY <1>t, <2>4, MoveDoes DEF S!Begin, Places, S!InRotation
  <2> QED BY <2>1, <2>2, <2>3, <2>4
<1>k. k \in 0..made /\ (k # 0 => k \in S!Tokens)
  BY <1>a, <1>t, SessionTypes DEF CallsUpTo, S!Tokens
<1>3. S!TypeOK'
  BY <1>1, <1>2, <1>k, <1>t, SessionTypes, SessionTypedNext
<1>5. RowsInv'
  BY <1>1 DEF SessionInv, RowsInv
<1>6. \A x : Lost(x)' = Lost(x) /\ S!Spent(x)' = S!Spent(x)
  BY <1>1 DEF Lost, S!Spent
<1> HIDE DEF k
<1>7. LeadersInv'
  BY <1>1, <1>2, <1>6, <1>a DEF k, SessionInv, LeadersInv, Leading, S!InRotation, S!Rotated
<1>8. TabsInv'
  BY <1>2, <1>6 DEF k, SessionInv, TabsInv, S!Spent
<1>9. RenewInv'
  BY <1>1, <1>2, <1>6, <1>a DEF SessionInv, RenewInv, S!Rotated
<1> QED BY <1>3, <1>5, <1>7, <1>8, <1>9 DEF SessionInv

(* The rotation of a row, whatever becomes of the answer.                  *)
LEMMA RotationDoes ==
  ASSUME SessionInv, NEW k \in 1..made, made < MaxTokens, made' = made + 1,
         NEW s \in S!Rotatable(k),
         row' = [row EXCEPT ![s].token = made + 1, ![s].prev = k],
         of' = [of EXCEPT ![made + 1] = s]
  PROVE  /\ row' \in [S!Sessions -> [token : 0..made', prev : 0..made', revoked : BOOLEAN]]
         /\ of' \in [S!Tokens -> 0..MaxSessions] /\ made' \in 0..MaxTokens
         /\ \A x \in S!Sessions : row'[x].revoked = row[x].revoked
         /\ \A x \in 1..made : of'[x] = of[x]
         /\ s \in S!Sessions /\ of[k] = s /\ ~row[s].revoked /\ of'[made'] = s
         /\ row'[s].token = made' /\ \A x \in S!Sessions \ {s} : row'[x] = row[x]
         /\ RowsInv'
<1> USE SessionNumbers
<1>t. S!TypeOK
  BY DEF SessionInv
<1>1. s \in S!Sessions /\ row[s].token = k /\ ~row[s].revoked
  BY DEF S!Rotatable
<1>2. of[k] = s
  BY <1>1 DEF SessionInv, RowsInv
<1>n. made + 1 \in 0..MaxTokens /\ made + 1 \in S!Tokens /\ made \in Nat
  BY <1>t, SessionTypes DEF S!Tokens
<1>3. /\ row' \in [S!Sessions -> [token : 0..made + 1, prev : 0..made + 1, revoked : BOOLEAN]]
      /\ \A x \in S!Sessions \ {s} : row'[x] = row[x]
      /\ row'[s].token = made + 1 /\ row'[s].prev = k /\ row'[s].revoked = row[s].revoked
  <2>1. \A x \in S!Sessions : row[x] \in [token : 0..made + 1, prev : 0..made + 1, revoked : BOOLEAN]
    BY <1>t, SessionTypes
  <2>2. row' = [row EXCEPT ![s] = [row[s] EXCEPT !.token = made + 1, !.prev = k]]
    BY <1>1, <1>t, SessionTypes
  <2>3. [row[s] EXCEPT !.token = made + 1, !.prev = k]
          \in [token : 0..made + 1, prev : 0..made + 1, revoked : BOOLEAN]
    <3>1. k \in 0..made + 1 /\ made + 1 \in 0..made + 1
      BY <1>n
    <3> QED BY <1>1, <2>1, <3>1
  <2> QED BY <1>t, <1>1, <2>1, <2>2, <2>3, SessionTypes
<1>4. of' \in [S!Tokens -> 0..MaxSessions] /\ of'[made + 1] = s
      /\ \A x \in 1..made : of'[x] = of[x]
  BY <1>t, <1>1, <1>n, SessionTypes DEF S!Sessions, S!Tokens
<1>5. RowsInv'
  <2>1. \A x \in 1..made + 1 : of'[x] \in S!Sessions
    BY <1>n, <1>1, <1>4 DEF SessionInv, RowsInv
  <2>2. \A q \in S!Sessions : /\ (row'[q].token # 0 => of'[row'[q].token] = q)
                              /\ (row'[q].prev # 0 => of'[row'[q].prev] = q)
    <3> TAKE q \in S!Sessions
    <3>1. CASE q = s
      BY <3>1, <1>2, <1>3, <1>4
    <3>2. CASE q # s
      <4>1. row[q].token \in 0..made /\ row[q].prev \in 0..made
        BY <1>t, SessionTypes
      <4> QED BY <3>2, <4>1, <1>n, <1>3, <1>4 DEF SessionInv, RowsInv
    <3> QED BY <3>1, <3>2
  <2> QED BY <2>1, <2>2 DEF RowsInv
<1> QED BY <1>1, <1>2, <1>3, <1>4, <1>5, <1>n

(* After a rotation every other token is where it was, and the rotated one *)
(* is taken care of by the call that leads it, or is lost.                 *)
LEMMA RotationRenews ==
  ASSUME SessionInv, NEW k \in 1..made, made < MaxTokens, made' = made + 1,
         NEW s \in S!Rotatable(k),
         row' = [row EXCEPT ![s].token = made + 1, ![s].prev = k],
         of' = [of EXCEPT ![made + 1] = s],
         excused \subseteq excused', UNCHANGED <<disabled, recent>>,
         \A q \in S!Requests : req[q].at \in S!Rotated /\ req[q].token # k => req'[q] = req[q],
         k \in excused' \/ \E q \in S!Requests : req'[q].token = k /\ req'[q].at \in S!Rotated
  PROVE  RenewInv'
<1>t. S!TypeOK
  BY DEF SessionInv
<1>1. /\ \A x \in S!Sessions : row'[x].revoked = row[x].revoked
      /\ \A x \in 1..made : of'[x] = of[x]
      /\ s \in S!Sessions /\ of[k] = s /\ of'[made'] = s
      /\ row'[s].token = made' /\ \A x \in S!Sessions \ {s} : row'[x] = row[x]
      /\ row[s].token = k
  BY RotationDoes DEF S!Rotatable
<1>2. \A x \in 1..made : Lost(x) => Lost(x)'
  <2>1. \A x \in S!Sessions : row[x].revoked => row'[x].revoked
    BY <1>1
  <2>2. \A x \in 0..made : (x # 0 /\ Lost(x) => Lost(x)') /\ (S!Spent(x) => S!Spent(x)')
    BY <1>t, <1>1, <2>1, LostStays DEF SessionInv
  <2>3. \A x \in 1..made : x \in 0..made /\ x # 0
    BY <1>t, SessionTypes
  <2> QED BY <2>2, <2>3
<1> SUFFICES ASSUME NEW x \in 1..made'
             PROVE  (\/ Lost(x) \/ row[of[x]].token = x \/ recent[x] # 0
                     \/ \E q \in S!Requests : req[q].token = x /\ req[q].at \in S!Rotated)'
  BY DEF RenewInv
<1>3. CASE x = made'
  BY <1>3, <1>1
<1>4. CASE x = k
  BY <1>4 DEF Lost
<1>5. CASE x # made' /\ x # k
  <2>1. x \in 1..made /\ of[x] \in S!Sessions /\ of'[x] = of[x]
    <3>1. made \in Nat
      BY <1>t, SessionTypes
    <3>2. x \in 1..made
      BY ONLY <1>5, <3>1, x \in 1..made', made' = made + 1
    <3>3. \A y \in 1..made : of[y] \in S!Sessions
      BY DEF SessionInv, RowsInv
    <3> QED BY <1>1, <3>2, <3>3
  <2>2. row[of[x]].token = x => row'[of[x]].token = x
    BY <2>1, <1>1, <1>5
  <2> QED BY <1>1, <1>2, <1>5, <2>1, <2>2 DEF SessionInv, RenewInv
<1> QED BY <1>3, <1>4, <1>5

LEMMA SessionRotate ==
  ASSUME SessionInv, NEW r \in S!Requests, S!Rotate(r) PROVE SessionInv'
<1> USE SessionNumbers
<1>t. S!TypeOK
  BY DEF SessionInv
<1> DEFINE k == req[r].token
<1>1. UNCHANGED <<disabled, recent, rotating, jar, tab, excused>> /\ req[r].at = "rotating"
  BY DEF S!Rotate, S!gateway, S!browser
<1>2. req[r] \in CallsUpTo(made) /\ made \in Nat
  BY <1>t, SessionTypes
<1>3. k \in 1..made /\ k \in rotating /\ recent[k] = 0
      /\ \A q \in S!Requests : req[q].at \in Leading /\ req[q].token = k => q = r
  <2>1. req[r].at \in Leading /\ req[r].at \in S!InRotation
    BY <1>1 DEF Leading, S!InRotation
  <2>2. k # 0 /\ k \in rotating /\ recent[k] = 0
        /\ \A q \in S!Requests : req[q].at \in Leading /\ req[q].token = k => q = r
    BY <2>1 DEF SessionInv, LeadersInv
  <2> QED BY <1>2, <2>2 DEF CallsUpTo
<1>n. \A q \in S!Requests : req[q].at \in S!Rotated /\ req[q].token # k => q # r
  OBVIOUS
<1> HIDE DEF k
<1>4. CASE S!Rotatable(k) = {}
  <2>1. UNCHANGED <<row, made, of>> /\ S!Move(r, "looking")
    BY <1>4 DEF S!Rotate, k
  <2>2. /\ req' \in [S!Requests -> CallsUpTo(made)]
        /\ \A q \in S!Requests \ {r} : req'[q] = req[q]
        /\ req'[r].token = k /\ req'[r].tab = req[r].tab /\ req'[r].kind = req[r].kind
        /\ req'[r].at = "looking"
    BY <1>t, <2>1, MoveDoes DEF k, Places, S!InRotation
  <2>3. S!TypeOK'
    BY <1>1, <1>t, <2>1, <2>2, SessionTypes, SessionTypedNext
  <2>4. \A x : Lost(x)' = Lost(x) /\ S!Spent(x)' = S!Spent(x)
    BY <1>1, <2>1 DEF Lost, S!Spent
  <2>5. Lost(k)
    <3>1. of[k] \in S!Sessions
      BY <1>3 DEF SessionInv, RowsInv
    <3>2. row[of[k]].token = k => Lost(k)
      BY <1>4, <3>1 DEF S!Rotatable, Lost
    <3>3. \A q \in S!Requests : req[q].token = k => req[q].at \notin S!Rotated
      BY <1>1, <1>3 DEF Leading, S!InRotation, S!Rotated
    <3> QED BY <1>3, <3>2, <3>3 DEF SessionInv, RenewInv
  <2>6. RowsInv'
    BY <2>1 DEF SessionInv, RowsInv
  <2>7. LeadersInv'
    BY <1>1, <1>3, <2>1, <2>2, <2>4, <2>5
       DEF SessionInv, LeadersInv, Leading, S!InRotation, S!Rotated, k
  <2>8. TabsInv'
    BY <2>2, <2>4 DEF SessionInv, TabsInv, k
  <2>9. RenewInv'
    BY <1>1, <2>1, <2>2, <2>4 DEF SessionInv, RenewInv, S!Rotated
  <2> QED BY <2>3, <2>6, <2>7, <2>8, <2>9 DEF SessionInv
<1>5. CASE S!Rotatable(k) # {}
  <2>1. PICK s \in S!Rotatable(k) :
          /\ row' = [row EXCEPT ![s].token = made + 1, ![s].prev = k]
          /\ of' = [of EXCEPT ![made + 1] = s]
    BY <1>5 DEF S!Rotate, k
  <2>2. made < MaxTokens /\ made' = made + 1
        /\ req' = [req EXCEPT ![r].at = "loading", ![r].got = made + 1]
    BY <1>5 DEF S!Rotate, k
  <2>3. /\ row' \in [S!Sessions -> [token : 0..made', prev : 0..made', revoked : BOOLEAN]]
        /\ of' \in [S!Tokens -> 0..MaxSessions] /\ made' \in 0..MaxTokens
        /\ \A x \in S!Sessions : row'[x].revoked = row[x].revoked
        /\ \A x \in 1..made : of'[x] = of[x]
        /\ of[k] = s /\ of'[made'] = s /\ RowsInv'
    BY <1>3, <2>1, <2>2, RotationDoes
  <2>4. /\ req' \in [S!Requests -> CallsUpTo(made')]
        /\ \A q \in S!Requests \ {r} : req'[q] = req[q]
        /\ req'[r].token = k /\ req'[r].tab = req[r].tab /\ req'[r].kind = req[r].kind
        /\ req'[r].at = "loading" /\ req'[r].got = made'
    <3>1. \A q \in S!Requests : req[q] \in CallsUpTo(made')
      BY <1>t, <2>2, SessionTypes DEF CallsUpTo
    <3>2. req' = [req EXCEPT ![r] = [req[r] EXCEPT !.at = "loading", !.got = made']]
      BY <1>t, <2>2, SessionTypes
    <3>3. made' \in 0..made'
      BY <1>2, <2>2
    <3>4. [req[r] EXCEPT !.at = "loading", !.got = made'] \in CallsUpTo(made')
      BY <3>1, <3>3 DEF CallsUpTo, Places, S!InRotation
    <3> QED BY <1>t, <3>1, <3>2, <3>4, SessionTypes DEF k, CallsUpTo
  <2>5. S!TypeOK'
    <3>1. recent' \in [S!Tokens -> 0..made'] /\ jar' \in 0..made' /\ rotating' \subseteq S!Tokens
          /\ tab' \in [Tabs -> {"form", "app", "stale", "boot"}]
      BY <1>t, <1>1, <2>2, SessionTypes
    <3> QED BY <2>3, <2>4, <3>1, SessionTypedNext
  <2>6. \A x \in 0..made : (x # 0 /\ Lost(x) => Lost(x)') /\ (S!Spent(x) => S!Spent(x)')
    BY <1>t, <1>1, <2>3, LostStays DEF SessionInv
  <2>7. \A q \in S!Requests : req[q].token \in 0..made /\ req[q].got \in 0..made
    BY <1>t, SessionTypes DEF CallsUpTo
  <2>8. LeadersInv'
    <3>1. \A q \in S!Requests : req'[q].at \in S!Rotated =>
            req'[q].got # 0 /\ of'[req'[q].got] = of'[req'[q].token]
      <4> SUFFICES ASSUME NEW q \in S!Requests, req'[q].at \in S!Rotated
                   PROVE  req'[q].got # 0 /\ of'[req'[q].got] = of'[req'[q].token]
        OBVIOUS
      <4>1. CASE q = r
        BY <4>1, <1>2, <1>3, <2>2, <2>3, <2>4
      <4>2. CASE q # r
        <5>1. req[q].got # 0 /\ of[req[q].got] = of[req[q].token] /\ req[q].token # 0
          BY <4>2, <2>4 DEF SessionInv, LeadersInv, S!Rotated, S!InRotation
        <5>2. req[q].got \in 1..made /\ req[q].token \in 1..made
          BY <5>1, <2>7, <1>2
        <5> QED BY <4>2, <5>1, <5>2, <2>3, <2>4
      <4> QED BY <4>1, <4>2
    <3>2. \A q \in S!Requests : req'[q].at \in {"looking", "revoking"} => Lost(req[q].token)'
      <4> SUFFICES ASSUME NEW q \in S!Requests, req'[q].at \in {"looking", "revoking"}
                   PROVE  Lost(req[q].token)'
        OBVIOUS
      <4>1. q # r /\ req'[q] = req[q]
        BY <2>4
      <4>2. req[q].token # 0 /\ Lost(req[q].token)
        BY <4>1 DEF SessionInv, LeadersInv, S!InRotation
      <4>3. \A x : x = req[q].token => Lost(x)'
        BY <4>2, <2>6, <2>7
      <4> QED BY <4>1, <4>3 DEF Lost
    <3>3. \A q \in S!Requests : req'[q].at \in S!InRotation \cup {"closing"} => req'[q].token # 0
      BY <1>3, <2>4 DEF SessionInv, LeadersInv
    <3>4. \A q \in S!Requests : req'[q].at \in Leading =>
            req'[q].token \in rotating' /\ recent'[req'[q].token] = 0
      BY <1>1, <1>3, <2>4 DEF SessionInv, LeadersInv
    <3>5. \A q \in S!Requests : req'[q].at \in Leading =>
            req[q].at \in Leading /\ req'[q].token = req[q].token
      BY <1>1, <2>4 DEF Leading, S!InRotation, k
    <3>6. \A p, q \in S!Requests :
            req'[p].at \in Leading /\ req'[q].at \in Leading /\ req'[p].token = req'[q].token => p = q
      BY <3>5 DEF SessionInv, LeadersInv
    <3>7. \A q \in S!Requests : req'[q].at = "barring" => disabled'
      BY <1>1, <2>4 DEF SessionInv, LeadersInv
    <3> QED BY <3>1, <3>2, <3>3, <3>4, <3>6, <3>7 DEF LeadersInv, Leading
  <2>9. TabsInv'
    BY <2>4, <2>6, <2>7 DEF SessionInv, TabsInv, k
  <2>10. RenewInv'
    <3>1. \A q \in S!Requests : req[q].at \in S!Rotated /\ req[q].token # k => req'[q] = req[q]
      BY <1>n, <2>4 DEF k
    <3>2. \E q \in S!Requests : req'[q].token = k /\ req'[q].at \in S!Rotated
      BY <2>4 DEF S!Rotated
    <3>3. UNCHANGED <<disabled, recent>> /\ excused \subseteq excused'
      BY <1>1
    <3> QED BY <1>3, <2>1, <2>2, <3>1, <3>2, <3>3, RotationRenews
  <2> QED BY <2>3, <2>5, <2>8, <2>9, <2>10 DEF SessionInv
<1> QED BY <1>4, <1>5

(* A rotation that settles: the calls of other tokens go on, and what      *)
(* becomes of its own token is told.                                       *)
LEMMA SettledSession ==
  ASSUME SessionInv, NEW r \in S!Requests, NEW k, k = req[r].token, req[r].at \in Leading,
         NEW outcome \in {"ok", "refused", "unavailable"}, NEW got \in 0..made,
         S!Settle(k, outcome, got),
         UNCHANGED <<made, of, disabled, jar, tab>>, excused \subseteq excused',
         row' \in [S!Sessions -> [token : 0..made, prev : 0..made, revoked : BOOLEAN]],
         \A s \in S!Sessions : /\ row'[s].token = row[s].token /\ row'[s].prev = row[s].prev
                               /\ (row[s].revoked => row'[s].revoked),
         recent' \in [S!Tokens -> 0..made], \A x \in S!Tokens \ {k} : recent'[x] = recent[x],
         outcome = "refused" => S!Spent(k)',
         req[r].at \in S!Rotated => Lost(k)' \/ recent'[k] # 0
  PROVE  SessionInv'
<1> USE SessionNumbers
<1>t. S!TypeOK
  BY DEF SessionInv
<1>1. /\ rotating' = rotating \ {k}
      /\ req' \in [S!Requests -> CallsUpTo(made)]
      /\ \A q \in S!Requests :
           /\ req'[q].token = req[q].token /\ req'[q].tab = req[q].tab
           /\ req'[q].kind = req[q].kind
      /\ \A q \in S!Requests : req[q].token = k /\ req[q].at \in S!InRotation =>
           req'[q].at = outcome /\ req'[q].got = got
      /\ \A q \in S!Requests : ~(req[q].token = k /\ req[q].at \in S!InRotation) =>
           req'[q] = req[q]
  <2>1. S!Settle(k, outcome, got) /\ outcome \in {"ok", "refused", "unavailable"} /\ got \in 0..made
    OBVIOUS
  <2> QED BY ONLY <1>t, <2>1, SettleDoes
<1>2. /\ k \in 1..made /\ recent[k] = 0
      /\ \A q \in S!Requests : req[q].at \in Leading /\ req[q].token = k => q = r
  <2>1. req[r].at \in S!InRotation /\ req[r] \in CallsUpTo(made) /\ made \in Nat
    BY <1>t, SessionTypes DEF Leading
  <2>2. k # 0 /\ recent[k] = 0
        /\ \A q \in S!Requests : req[q].at \in Leading /\ req[q].token = k => q = r
    BY <2>1 DEF SessionInv, LeadersInv
  <2> QED BY <2>1, <2>2 DEF CallsUpTo
<1>3. S!TypeOK'
  <2>1. made \in 0..MaxTokens /\ made' = made /\ jar' \in 0..made /\ rotating' \subseteq S!Tokens
        /\ tab' \in [Tabs -> {"form", "app", "stale", "boot"}]
        /\ of' \in [S!Tokens -> 0..MaxSessions]
    BY <1>t, <1>1, SessionTypes
  <2> QED BY <1>1, <2>1, SessionTypedNext
<1>4. RowsInv'
  BY DEF SessionInv, RowsInv
<1>5. \A x \in 0..made : (x # 0 /\ Lost(x) => Lost(x)') /\ (S!Spent(x) => S!Spent(x)')
  BY <1>t, LostStays DEF SessionInv
<1>6. \A q \in S!Requests : req[q].token \in 0..made /\ req[q].got \in 0..made
  BY <1>t, SessionTypes DEF CallsUpTo
<1>7. \A q \in S!Requests : req'[q].at \in S!InRotation \cup {"closing"} =>
        req'[q] = req[q] /\ (req[q].at \in S!InRotation => req[q].token # k)
  BY <1>1 DEF S!InRotation
<1>8. LeadersInv'
  <2>1. \A q \in S!Requests : req'[q].at \in Leading =>
          req'[q] = req[q] /\ req[q].at \in Leading /\ req[q].token # k
    BY <1>7 DEF Leading
  <2>2. \A q \in S!Requests : req'[q].at \in S!InRotation \cup {"closing"} => req'[q].token # 0
    BY <1>7 DEF SessionInv, LeadersInv
  <2>3. \A q \in S!Requests : req'[q].at \in Leading =>
          req'[q].token \in rotating' /\ recent'[req'[q].token] = 0
    <3> TAKE q \in S!Requests
    <3> HAVE req'[q].at \in Leading
    <3>1. req[q].token \in rotating /\ recent[req[q].token] = 0 /\ req'[q] = req[q]
          /\ req[q].token # k
      BY <2>1 DEF SessionInv, LeadersInv
    <3>2. req[q].token \in S!Tokens
      BY <3>1, <1>t, SessionTypes
    <3> QED BY <3>1, <3>2, <1>1
  <2>4. \A p, q \in S!Requests :
          req'[p].at \in Leading /\ req'[q].at \in Leading /\ req'[p].token = req'[q].token => p = q
    BY <2>1 DEF SessionInv, LeadersInv
  <2>5. \A q \in S!Requests : req'[q].at \in S!Rotated =>
          req'[q].got # 0 /\ of'[req'[q].got] = of'[req'[q].token]
    BY <2>1 DEF SessionInv, LeadersInv, S!Rotated, Leading, S!InRotation
  <2>6. \A q \in S!Requests : req'[q].at \in {"looking", "revoking"} => Lost(req[q].token)'
    <3> SUFFICES ASSUME NEW q \in S!Requests, req'[q].at \in {"looking", "revoking"}
                 PROVE  Lost(req[q].token)'
      OBVIOUS
    <3>1. req'[q] = req[q] /\ req[q].token # 0 /\ Lost(req[q].token)
      BY <1>7 DEF SessionInv, LeadersInv, S!InRotation
    <3>2. \A x : x = req[q].token => Lost(x)'
      BY <3>1, <1>5, <1>6
    <3> QED BY <3>1, <3>2 DEF Lost
  <2>7. \A q \in S!Requests : req'[q].at = "barring" => disabled'
    BY <1>7 DEF SessionInv, LeadersInv, S!InRotation
  <2> QED BY <2>2, <2>3, <2>4, <2>5, <2>6, <2>7 DEF LeadersInv, Leading
<1>9. TabsInv'
  <2>1. \A q \in S!Requests : req'[q].at = "refused" /\ req'[q].kind = "refresh" =>
          S!Spent(req[q].token)'
    <3> SUFFICES ASSUME NEW q \in S!Requests, req'[q].at = "refused", req'[q].kind = "refresh"
                 PROVE  S!Spent(req[q].token)'
      OBVIOUS
    <3>1. CASE req[q].token = k /\ req[q].at \in S!InRotation
      <4>1. outcome = "refused" /\ req'[q].token = k
        BY <3>1, <1>1
      <4> QED BY <4>1 DEF S!Spent
    <3>2. CASE ~(req[q].token = k /\ req[q].at \in S!InRotation)
      <4>1. req'[q] = req[q] /\ S!Spent(req[q].token)
        BY <3>2, <1>1 DEF SessionInv, TabsInv
      <4>2. \A x : x = req[q].token => S!Spent(x)'
        BY <4>1, <1>5, <1>6
      <4> QED BY <4>1, <4>2 DEF S!Spent
    <3> QED BY <3>1, <3>2
  <2>2. \A p, q \in S!Requests : req'[p].tab = req'[q].tab /\ req'[q].tab # NoTab => p = q
    BY <1>1 DEF SessionInv, TabsInv
  <2> QED BY <2>1, <2>2 DEF TabsInv
<1>10. RenewInv'
  <2> SUFFICES ASSUME NEW x \in 1..made
               PROVE  (\/ Lost(x) \/ row[of[x]].token = x \/ recent[x] # 0
                       \/ \E q \in S!Requests : req[q].token = x /\ req[q].at \in S!Rotated)'
    BY DEF RenewInv
  <2>1. x \in 0..made /\ x # 0 /\ x \in S!Tokens /\ of[x] \in S!Sessions
    BY <1>t, SessionTypes DEF SessionInv, RowsInv, S!Tokens
  <2>2. CASE Lost(x)
    BY <2>1, <2>2, <1>5
  <2>3. CASE row[of[x]].token = x
    BY <2>1, <2>3
  <2>4. CASE recent[x] # 0
    BY <2>1, <2>4, <1>2
  <2>5. ASSUME NEW q \in S!Requests, req[q].token = x, req[q].at \in S!Rotated
        PROVE  \/ Lost(x)' \/ recent'[x] # 0
               \/ \E p \in S!Requests : req'[p].token = x /\ req'[p].at \in S!Rotated
    <3>1. CASE x = k
      <4>1. q = r
        BY <3>1, <2>5, <1>2 DEF S!Rotated, Leading, S!InRotation
      <4> QED BY <4>1, <3>1, <2>5
    <3>2. CASE x # k
      BY <3>2, <2>5, <1>1
    <3> QED BY <3>1, <3>2
  <2> QED BY <2>2, <2>3, <2>4, <2>5 DEF SessionInv, RenewInv
<1> QED BY <1>3, <1>4, <1>8, <1>9, <1>10 DEF SessionInv

(* What a token is whose rotation the call leads: rows that know it are    *)
(* the row of its own session.                                             *)
LEMMA LeadsOwn ==
  ASSUME SessionInv, NEW r \in S!Requests, NEW k, k = req[r].token, req[r].at \in Leading
  PROVE  /\ k \in 1..made /\ k \in S!Tokens /\ of[k] \in S!Sessions /\ req[r] \in CallsUpTo(made)
         /\ \A s \in S!RotatedFrom(k) : s = of[k] /\ ~row[s].revoked
<1>t. S!TypeOK
  BY DEF SessionInv
<1>1. req[r].at \in S!InRotation /\ req[r] \in CallsUpTo(made) /\ made \in Nat
      /\ made <= MaxTokens
  BY <1>t, SessionTypes DEF Leading
<1>2. k # 0
  BY <1>1 DEF SessionInv, LeadersInv
<1>3. k \in 1..made /\ k \in S!Tokens
  BY <1>1, <1>2, SessionNumbers DEF CallsUpTo, S!Tokens
<1>4. of[k] \in S!Sessions
  BY <1>3 DEF SessionInv, RowsInv
<1>5. \A s \in S!RotatedFrom(k) : s = of[k] /\ ~row[s].revoked
  BY <1>2 DEF S!RotatedFrom, SessionInv, RowsInv
<1> QED BY <1>1, <1>3, <1>4, <1>5

(* A call goes on in its rotation, with what its new place says of it.     *)
LEMMA SessionGoesOn ==
  ASSUME SessionInv, NEW r \in S!Requests, NEW at \in Leading, S!Move(r, at),
         UNCHANGED <<row, made, of, disabled, recent, rotating, jar, tab, excused>>,
         \/ req[r].at = "looking" /\ at = "revoking"
         \/ req[r].at = "loading" /\ at = "barring" /\ disabled
  PROVE  SessionInv'
<1>t. S!TypeOK
  BY DEF SessionInv
<1>1. /\ req' \in [S!Requests -> CallsUpTo(made)]
      /\ \A q \in S!Requests \ {r} : req'[q] = req[q]
      /\ req'[r].token = req[r].token /\ req'[r].tab = req[r].tab
      /\ req'[r].kind = req[r].kind /\ req'[r].got = req[r].got /\ req'[r].at = at
  BY <1>t, MoveDoes DEF Leading, Places
<1>2. S!TypeOK'
  BY <1>1, <1>t, SessionNumbers, SessionTypes, SessionTypedNext
<1>3. RowsInv'
  BY DEF SessionInv, RowsInv
<1>4. \A x : Lost(x)' = Lost(x) /\ S!Spent(x)' = S!Spent(x)
  BY DEF Lost, S!Spent
<1>5. LeadersInv'
  BY <1>1, <1>4 DEF SessionInv, LeadersInv, Leading, S!InRotation, S!Rotated
<1>6. TabsInv'
  BY <1>1, <1>4 DEF SessionInv, TabsInv, Leading, S!InRotation
<1>7. RenewInv'
  <2>1. \A q \in S!Requests : req[q].at \in S!Rotated =>
          req'[q].at \in S!Rotated /\ req'[q].token = req[q].token
    BY <1>1 DEF S!Rotated
  <2> QED BY <1>4, <2>1 DEF SessionInv, RenewInv
<1> QED BY <1>2, <1>3, <1>5, <1>6, <1>7 DEF SessionInv

LEMMA SessionLook ==
  ASSUME SessionInv, NEW r \in S!Requests, S!Look(r) PROVE SessionInv'
<1>1. /\ req[r].at = "looking" /\ UNCHANGED <<row, made, of, disabled, recent, jar, tab, excused>>
  BY DEF S!Look, S!base, S!browser
<1>2. PICK k : k = req[r].token
  OBVIOUS
<1>t. S!TypeOK /\ made \in Nat
  BY SessionTypes DEF SessionInv
<1>3. CASE S!RotatedFrom(req[r].token) = {}
  <2>1. S!Settle(k, "refused", 0) /\ 0 \in 0..made
    BY <1>2, <1>3, <1>t DEF S!Look
  <2>2. req[r].at \in Leading /\ Lost(k) /\ req[r].at \notin S!Rotated
    BY <1>1, <1>2 DEF Leading, S!InRotation, S!Rotated, SessionInv, LeadersInv
  <2>3. S!Spent(k)'
    BY <1>1, <2>2 DEF Lost, S!Spent
  <2>4. row' \in [S!Sessions -> [token : 0..made, prev : 0..made, revoked : BOOLEAN]]
        /\ recent' \in [S!Tokens -> 0..made]
    BY <1>1, <1>t, SessionTypes
  <2> QED BY <1>1, <1>2, <2>1, <2>2, <2>3, <2>4, SettledSession
<1>4. CASE S!RotatedFrom(req[r].token) # {}
  <2>1. S!Move(r, "revoking") /\ UNCHANGED rotating /\ "revoking" \in Leading
    BY <1>4 DEF S!Look, Leading, S!InRotation
  <2> QED BY <1>1, <2>1, SessionGoesOn
<1> QED BY <1>3, <1>4

LEMMA SessionRevoke ==
  ASSUME SessionInv, NEW r \in S!Requests, S!Revoke(r) PROVE SessionInv'
<1>1. /\ req[r].at \in {"revoking", "barring"}
      /\ UNCHANGED <<made, of, disabled, recent, jar, tab, excused>>
      /\ S!Settle(req[r].token, "refused", 0)
  BY DEF S!Revoke, S!browser
<1>2. PICK k : k = req[r].token
  OBVIOUS
<1>t. S!TypeOK /\ made \in Nat /\ 0 \in 0..made
      /\ row \in [S!Sessions -> [token : 0..made, prev : 0..made, revoked : BOOLEAN]]
  BY SessionTypes DEF SessionInv
<1>l. req[r].at \in Leading
  BY <1>1 DEF Leading, S!InRotation
<1>3. /\ row' \in [S!Sessions -> [token : 0..made, prev : 0..made, revoked : BOOLEAN]]
      /\ \A s \in S!Sessions : /\ row'[s].token = row[s].token /\ row'[s].prev = row[s].prev
                               /\ (row[s].revoked => row'[s].revoked)
  <2>1. \A s \in S!Sessions : [row[s] EXCEPT !.revoked = TRUE]
                                \in [token : 0..made, prev : 0..made, revoked : BOOLEAN]
    BY <1>t
  <2>2. CASE row' = [s \in S!Sessions |->
               IF s \in S!RotatedFrom(req[r].token) THEN [row[s] EXCEPT !.revoked = TRUE] ELSE row[s]]
    BY <1>t, <2>1, <2>2
  <2>3. CASE row' = [row EXCEPT ![of[req[r].got]].revoked = TRUE]
    <3>1. row' = [s \in S!Sessions |->
               IF s = of[req[r].got] THEN [row[s] EXCEPT !.revoked = TRUE] ELSE row[s]]
      BY <1>t, <2>3
    <3> QED BY <1>t, <2>1, <3>1
  <2> QED BY <2>2, <2>3 DEF S!Revoke
<1>4. S!Spent(k)'
  <2>1. CASE req[r].at = "revoking"
    <3>1. Lost(k)
      BY <1>2, <2>1 DEF SessionInv, LeadersInv
    <3>2. of[k] \in S!Sessions
      BY <1>2, <1>l, LeadsOwn
    <3> QED BY <1>1, <1>3, <3>1, <3>2 DEF Lost, S!Spent
  <2>2. CASE req[r].at = "barring"
    BY <1>1, <2>2 DEF SessionInv, LeadersInv, S!Spent
  <2> QED BY <1>1, <2>1, <2>2
<1>5. req[r].at \in S!Rotated => Lost(k)'
  <2> SUFFICES ASSUME req[r].at = "barring" PROVE Lost(k)'
    BY <1>1 DEF S!Rotated
  <2>1. of[req[r].got] = of[k] /\ of[k] \in S!Sessions
    BY <1>2, <1>l, LeadsOwn DEF SessionInv, LeadersInv, S!Rotated
  <2>2. row' = [row EXCEPT ![of[req[r].got]].revoked = TRUE]
    BY DEF S!Revoke
  <2>3. row'[of[k]].revoked
    BY <1>t, <2>1, <2>2
  <2> QED BY <1>1, <2>3 DEF Lost
<1>6. recent' \in [S!Tokens -> 0..made]
  BY <1>1, <1>t, SessionTypes
<1>7. S!Settle(k, "refused", 0)
  BY <1>1, <1>2
<1> QED BY <1>1, <1>2, <1>3, <1>4, <1>5, <1>6, <1>7, <1>l, <1>t, SettledSession

LEMMA SessionLoad ==
  ASSUME SessionInv, NEW r \in S!Requests, S!Load(r) PROVE SessionInv'
<1>1. /\ req[r].at = "loading" /\ UNCHANGED <<row, made, of, disabled, jar, tab, excused>>
  BY DEF S!Load, S!base, S!browser
<1>2. PICK k : k = req[r].token
  OBVIOUS
<1>t. S!TypeOK /\ made \in Nat
      /\ row' \in [S!Sessions -> [token : 0..made, prev : 0..made, revoked : BOOLEAN]]
  BY <1>1, SessionTypes DEF SessionInv
<1>l. req[r].at \in Leading /\ req[r].at \in S!Rotated
  BY <1>1 DEF Leading, S!InRotation, S!Rotated
<1>3. CASE disabled
  <2>1. S!Move(r, "barring") /\ UNCHANGED <<recent, rotating>> /\ "barring" \in Leading
    BY <1>3 DEF S!Load, S!gateway, Leading, S!InRotation
  <2> QED BY <1>1, <1>3, <2>1, SessionGoesOn
<1>4. CASE ~disabled
  <2>1. recent' = [recent EXCEPT ![req[r].token] = req[r].got]
        /\ S!Settle(req[r].token, "ok", req[r].got)
    BY <1>4 DEF S!Load
  <2>2. PICK got : got = req[r].got
    OBVIOUS
  <2>3. got \in 0..made /\ got # 0 /\ k \in S!Tokens
    BY <1>2, <2>2, <1>l, LeadsOwn DEF CallsUpTo, SessionInv, LeadersInv
  <2>4. /\ recent' \in [S!Tokens -> 0..made] /\ recent'[k] = got
        /\ \A x \in S!Tokens \ {k} : recent'[x] = recent[x]
    BY <1>2, <1>t, <2>1, <2>2, <2>3, SessionTypes
  <2>5. S!Settle(k, "ok", got)
    BY <2>1, <2>2, <1>2
  <2> QED BY <1>1, <1>2, <1>t, <1>l, <2>3, <2>4, <2>5, SettledSession
<1> QED BY <1>3, <1>4

LEMMA SessionUnavailable ==
  ASSUME SessionInv, NEW r \in S!Requests, S!Unavailable(r) PROVE SessionInv'
<1>1. /\ req[r].at \in S!InRotation \ {"joined"}
      /\ UNCHANGED <<row, made, of, disabled, recent, jar, tab>>
      /\ excused' = IF req[r].at \in S!Rotated THEN excused \cup {req[r].token} ELSE excused
      /\ S!Settle(req[r].token, "unavailable", 0)
  BY DEF S!Unavailable, S!BrokenOff, S!base, S!browser
<1>2. PICK k : k = req[r].token
  OBVIOUS
<1>t. S!TypeOK /\ made \in Nat /\ 0 \in 0..made
  BY SessionTypes DEF SessionInv
<1>3. row' \in [S!Sessions -> [token : 0..made, prev : 0..made, revoked : BOOLEAN]]
      /\ recent' \in [S!Tokens -> 0..made]
  BY <1>1, <1>t, SessionTypes
<1>4. req[r].at \in Leading /\ S!Settle(k, "unavailable", 0)
  BY <1>1, <1>2 DEF Leading
<1>5. req[r].at \in S!Rotated => Lost(k)'
  BY <1>1, <1>2 DEF Lost
<1>6. excused \subseteq excused'
  BY <1>1
<1> QED BY <1>1, <1>2, <1>3, <1>4, <1>5, <1>6, <1>t, SettledSession

(* A step that leaves the rotations that go on as they are: what it breaks *)
(* off or forgets is a token that is excused.                              *)
LEMMA QuietSession ==
  ASSUME SessionInv, UNCHANGED <<made, of, jar, tab>>, disabled => disabled',
         excused \subseteq excused', rotating' \subseteq S!Tokens,
         row' \in [S!Sessions -> [token : 0..made, prev : 0..made, revoked : BOOLEAN]],
         \A s \in S!Sessions : /\ row'[s].token = row[s].token /\ row'[s].prev = row[s].prev
                               /\ (row[s].revoked => row'[s].revoked),
         recent' \in [S!Tokens -> 0..made],
         \A x \in S!Tokens : recent'[x] = recent[x] \/ (recent'[x] = 0 /\ x \in excused'),
         req' \in [S!Requests -> CallsUpTo(made)],
         \A q \in S!Requests : /\ req'[q].token = req[q].token /\ req'[q].tab = req[q].tab
                               /\ req'[q].kind = req[q].kind,
         \A q \in S!Requests : req[q].at \in S!Rotated =>
            req'[q] = req[q] \/ req[q].token \in excused',
         \A q \in S!Requests : \/ req'[q] = req[q]
                               \/ req'[q].at \in {"ok", "unavailable"}
                               \/ req'[q].at = "closing" /\ req[q].token # 0,
         \A q \in S!Requests : req'[q].at \in Leading => req[q].token \in rotating'
  PROVE  SessionInv'
<1> USE SessionNumbers
<1>t. S!TypeOK
  BY DEF SessionInv
<1>1. S!TypeOK'
  <2>1. made \in 0..MaxTokens /\ made' = made /\ jar' \in 0..made
        /\ tab' \in [Tabs -> {"form", "app", "stale", "boot"}]
        /\ of' \in [S!Tokens -> 0..MaxSessions]
    BY <1>t, SessionTypes
  <2> QED BY <2>1, SessionTypedNext
<1>2. RowsInv'
  BY DEF SessionInv, RowsInv
<1>3. \A x \in 0..made : (x # 0 /\ Lost(x) => Lost(x)') /\ (S!Spent(x) => S!Spent(x)')
  BY <1>t, LostStays DEF SessionInv
<1>4. \A q \in S!Requests : req[q].token \in 0..made /\ req[q].got \in 0..made
  BY <1>t, SessionTypes DEF CallsUpTo
<1>5. \A q \in S!Requests : req'[q].at \in S!InRotation \cup {"refused"} => req'[q] = req[q]
  BY DEF S!InRotation
<1>6. LeadersInv'
  <2>1. \A q \in S!Requests : req'[q].at \in Leading =>
          req'[q] = req[q] /\ req[q].at \in Leading
    BY <1>5 DEF Leading
  <2>2. \A q \in S!Requests : req'[q].at \in S!InRotation \cup {"closing"} => req'[q].token # 0
    BY <1>5 DEF SessionInv, LeadersInv
  <2>3. \A q \in S!Requests : req'[q].at \in Leading =>
          req'[q].token \in rotating' /\ recent'[req'[q].token] = 0
    <3> TAKE q \in S!Requests
    <3> HAVE req'[q].at \in Leading
    <3>1. req[q].token \in rotating /\ recent[req[q].token] = 0 /\ req'[q] = req[q]
      BY <2>1 DEF SessionInv, LeadersInv
    <3>2. req[q].token \in S!Tokens
      BY <3>1, <1>t, SessionTypes
    <3> QED BY <3>1, <3>2
  <2>4. \A p, q \in S!Requests :
          req'[p].at \in Leading /\ req'[q].at \in Leading /\ req'[p].token = req'[q].token => p = q
    BY <2>1 DEF SessionInv, LeadersInv
  <2>5. \A q \in S!Requests : req'[q].at \in S!Rotated =>
          req'[q].got # 0 /\ of'[req'[q].got] = of'[req'[q].token]
    BY <2>1 DEF SessionInv, LeadersInv, S!Rotated, Leading, S!InRotation
  <2>6. \A q \in S!Requests : req'[q].at \in {"looking", "revoking"} => Lost(req[q].token)'
    <3> SUFFICES ASSUME NEW q \in S!Requests, req'[q].at \in {"looking", "revoking"}
                 PROVE  Lost(req[q].token)'
      OBVIOUS
    <3>1. req'[q] = req[q] /\ req[q].token # 0 /\ Lost(req[q].token)
      BY <1>5 DEF SessionInv, LeadersInv, S!InRotation
    <3>2. \A x : x = req[q].token => Lost(x)'
      BY <3>1, <1>3, <1>4
    <3> QED BY <3>1, <3>2 DEF Lost
  <2>7. \A q \in S!Requests : req'[q].at = "barring" => disabled'
    BY <1>5 DEF SessionInv, LeadersInv, S!InRotation
  <2> QED BY <2>2, <2>3, <2>4, <2>5, <2>6, <2>7 DEF LeadersInv, Leading
<1>7. TabsInv'
  <2>1. \A q \in S!Requests : req'[q].at = "refused" /\ req'[q].kind = "refresh" =>
          S!Spent(req[q].token)'
    <3> SUFFICES ASSUME NEW q \in S!Requests, req'[q].at = "refused", req'[q].kind = "refresh"
                 PROVE  S!Spent(req[q].token)'
      OBVIOUS
    <3>1. req'[q] = req[q] /\ S!Spent(req[q].token)
      BY <1>5 DEF SessionInv, TabsInv
    <3>2. \A x : x = req[q].token => S!Spent(x)'
      BY <3>1, <1>3, <1>4
    <3> QED BY <3>1, <3>2 DEF S!Spent
  <2>2. \A p, q \in S!Requests : req'[p].tab = req'[q].tab /\ req'[q].tab # NoTab => p = q
    BY DEF SessionInv, TabsInv
  <2> QED BY <2>1, <2>2 DEF TabsInv
<1>8. RenewInv'
  <2> SUFFICES ASSUME NEW x \in 1..made
               PROVE  (\/ Lost(x) \/ row[of[x]].token = x \/ recent[x] # 0
                       \/ \E q \in S!Requests : req[q].token = x /\ req[q].at \in S!Rotated)'
    BY DEF RenewInv
  <2>1. x \in 0..made /\ x # 0 /\ x \in S!Tokens /\ of[x] \in S!Sessions
    BY <1>t, SessionTypes DEF SessionInv, RowsInv, S!Tokens
  <2>2. CASE Lost(x)
    BY <2>1, <2>2, <1>3
  <2>3. CASE row[of[x]].token = x
    BY <2>1, <2>3
  <2>4. CASE recent[x] # 0
    BY <2>1, <2>4 DEF Lost
  <2>5. ASSUME NEW q \in S!Requests, req[q].token = x, req[q].at \in S!Rotated
        PROVE  \/ Lost(x)' \/ recent'[x] # 0
               \/ \E p \in S!Requests : req'[p].token = x /\ req'[p].at \in S!Rotated
    BY <2>5 DEF Lost
  <2> QED BY <2>2, <2>3, <2>4, <2>5 DEF SessionInv, RenewInv
<1> QED BY <1>1, <1>2, <1>6, <1>7, <1>8 DEF SessionInv

LEMMA SessionRotateUnknown ==
  ASSUME SessionInv, NEW r \in S!Requests, S!RotateUnknown(r) PROVE SessionInv'
<1> USE SessionNumbers
<1>t. S!TypeOK /\ made \in Nat /\ 0 \in 0..made
  BY SessionTypes DEF SessionInv
<1>2. PICK k : k = req[r].token
  OBVIOUS
<1>1. /\ req[r].at = "rotating" /\ made < MaxTokens /\ made' = made + 1
      /\ UNCHANGED <<disabled, recent, jar, tab>> /\ excused' = excused \cup {k}
      /\ S!Settle(k, "unavailable", 0)
  BY <1>2 DEF S!RotateUnknown, S!BrokenOff, S!browser
<1>3. req[r].at \in Leading
  BY <1>1 DEF Leading, S!InRotation
<1>4. k \in 1..made
  BY <1>2, <1>3, LeadsOwn
<1>5. PICK s \in S!Rotatable(k) :
        /\ row' = [row EXCEPT ![s].token = made + 1, ![s].prev = k]
        /\ of' = [of EXCEPT ![made + 1] = s]
  BY <1>2 DEF S!RotateUnknown
<1>6. /\ row' \in [S!Sessions -> [token : 0..made', prev : 0..made', revoked : BOOLEAN]]
      /\ of' \in [S!Tokens -> 0..MaxSessions] /\ made' \in 0..MaxTokens
      /\ \A x \in S!Sessions : row'[x].revoked = row[x].revoked
      /\ \A x \in 1..made : of'[x] = of[x]
      /\ of[k] = s /\ of'[made'] = s /\ RowsInv'
  BY <1>1, <1>4, <1>5, RotationDoes
<1>7. /\ rotating' = rotating \ {k}
      /\ req' \in [S!Requests -> CallsUpTo(made)]
      /\ \A q \in S!Requests :
           /\ req'[q].token = req[q].token /\ req'[q].tab = req[q].tab
           /\ req'[q].kind = req[q].kind
      /\ \A q \in S!Requests : req[q].token = k /\ req[q].at \in S!InRotation =>
           req'[q].at = "unavailable" /\ req'[q].got = 0
      /\ \A q \in S!Requests : ~(req[q].token = k /\ req[q].at \in S!InRotation) =>
           req'[q] = req[q]
  BY <1>1, <1>t, SettleDoes
<1>8. S!TypeOK'
  <2>1. recent' \in [S!Tokens -> 0..made'] /\ jar' \in 0..made' /\ rotating' \subseteq S!Tokens
        /\ tab' \in [Tabs -> {"form", "app", "stale", "boot"}]
    BY <1>t, <1>1, <1>7, SessionTypes
  <2>2. req' \in [S!Requests -> CallsUpTo(made')]
    BY <1>1, <1>7, <1>t DEF CallsUpTo
  <2> QED BY <1>6, <2>1, <2>2, SessionTypedNext
<1>9. \A x \in 0..made : (x # 0 /\ Lost(x) => Lost(x)') /\ (S!Spent(x) => S!Spent(x)')
  <2>1. \A x \in S!Sessions : row[x].revoked => row'[x].revoked
    BY <1>6
  <2>2. excused \subseteq excused' /\ (disabled => disabled')
    BY <1>1
  <2> QED BY <1>t, <1>6, <2>1, <2>2, LostStays DEF SessionInv
<1>10. \A q \in S!Requests : req[q].token \in 0..made /\ req[q].got \in 0..made
  BY <1>t, SessionTypes DEF CallsUpTo
<1>11. \A q \in S!Requests : req'[q].at \in S!InRotation \cup {"closing", "refused"} =>
         req'[q] = req[q] /\ (req[q].at \in S!InRotation => req[q].token # k)
  BY <1>7 DEF S!InRotation
<1>12. LeadersInv'
  <2>1. \A q \in S!Requests : req'[q].at \in Leading =>
          req'[q] = req[q] /\ req[q].at \in Leading /\ req[q].token # k
    BY <1>11 DEF Leading
  <2>2. \A q \in S!Requests : req'[q].at \in S!InRotation \cup {"closing"} => req'[q].token # 0
    BY <1>11 DEF SessionInv, LeadersInv
  <2>3. \A q \in S!Requests : req'[q].at \in Leading =>
          req'[q].token \in rotating' /\ recent'[req'[q].token] = 0
    BY <1>1, <1>7, <2>1 DEF SessionInv, LeadersInv
  <2>4. \A p, q \in S!Requests :
          req'[p].at \in Leading /\ req'[q].at \in Leading /\ req'[p].token = req'[q].token => p = q
    BY <2>1 DEF SessionInv, LeadersInv
  <2>5. \A q \in S!Requests : req'[q].at \in S!Rotated =>
          req'[q].got # 0 /\ of'[req'[q].got] = of'[req'[q].token]
    <3> SUFFICES ASSUME NEW q \in S!Requests, req'[q].at \in S!Rotated
                 PROVE  req'[q].got # 0 /\ of'[req'[q].got] = of'[req'[q].token]
      OBVIOUS
    <3>1. req'[q] = req[q] /\ req[q].got # 0 /\ of[req[q].got] = of[req[q].token]
          /\ req[q].token # 0
      BY <1>11 DEF SessionInv, LeadersInv, S!Rotated, S!InRotation
    <3>2. req[q].got \in 1..made /\ req[q].token \in 1..made
      BY <3>1, <1>10, <1>t
    <3> QED BY <3>1, <3>2, <1>6
  <2>6. \A q \in S!Requests : req'[q].at \in {"looking", "revoking"} => Lost(req[q].token)'
    <3> SUFFICES ASSUME NEW q \in S!Requests, req'[q].at \in {"looking", "revoking"}
                 PROVE  Lost(req[q].token)'
      OBVIOUS
    <3>1. req'[q] = req[q] /\ req[q].token # 0 /\ Lost(req[q].token)
      BY <1>11 DEF SessionInv, LeadersInv, S!InRotation
    <3>2. \A x : x = req[q].token => Lost(x)'
      BY <3>1, <1>9, <1>10
    <3> QED BY <3>1, <3>2 DEF Lost
  <2>7. \A q \in S!Requests : req'[q].at = "barring" => disabled'
    BY <1>1, <1>11 DEF SessionInv, LeadersInv, S!InRotation
  <2> QED BY <2>2, <2>3, <2>4, <2>5, <2>6, <2>7, <1>7 DEF LeadersInv, Leading
<1>13. TabsInv'
  <2>1. \A q \in S!Requests : req'[q].at = "refused" /\ req'[q].kind = "refresh" =>
          S!Spent(req[q].token)'
    <3> SUFFICES ASSUME NEW q \in S!Requests, req'[q].at = "refused", req'[q].kind = "refresh"
                 PROVE  S!Spent(req[q].token)'
      OBVIOUS
    <3>1. req'[q] = req[q] /\ S!Spent(req[q].token)
      BY <1>11 DEF SessionInv, TabsInv
    <3>2. \A x : x = req[q].token => S!Spent(x)'
      BY <3>1, <1>9, <1>10
    <3> QED BY <3>1, <3>2 DEF S!Spent
  <2>2. \A p, q \in S!Requests : req'[p].tab = req'[q].tab /\ req'[q].tab # NoTab => p = q
    BY <1>7 DEF SessionInv, TabsInv
  <2> QED BY <2>1, <2>2, <1>7 DEF TabsInv
<1>14. RenewInv'
  <2>1. \A q \in S!Requests : req[q].at \in S!Rotated /\ req[q].token # k => req'[q] = req[q]
    BY <1>7
  <2>2. excused \subseteq excused' /\ k \in excused' /\ UNCHANGED <<disabled, recent>>
    BY <1>1
  <2> QED BY <1>1, <1>4, <1>5, <2>1, <2>2, RotationRenews
<1> QED BY <1>6, <1>8, <1>12, <1>13, <1>14 DEF SessionInv

LEMMA SessionLogoutServed ==
  ASSUME SessionInv, NEW r \in S!Requests, S!Forget(r) \/ S!Close(r) \/ S!CloseFails(r)
  PROVE  SessionInv'
<1>1. req[r].at \in {"sent", "closing"} /\ UNCHANGED <<made, of, disabled, rotating, jar, tab>>
      /\ excused \subseteq excused'
  BY DEF S!Forget, S!Close, S!CloseFails, S!base, S!gateway, S!browser
<1>t. S!TypeOK /\ made \in Nat /\ 0 \in 0..made /\ rotating' \subseteq S!Tokens
      /\ row \in [S!Sessions -> [token : 0..made, prev : 0..made, revoked : BOOLEAN]]
      /\ recent \in [S!Tokens -> 0..made]
  BY <1>1, SessionTypes DEF SessionInv
<1>2. PICK at \in {"ok", "closing", "unavailable"} :
        S!Move(r, at) /\ (at = "closing" => req[r].token # 0)
  BY DEF S!Forget, S!Close, S!CloseFails
<1>3. /\ req' \in [S!Requests -> CallsUpTo(made)]
      /\ \A q \in S!Requests \ {r} : req'[q] = req[q]
      /\ req'[r].token = req[r].token /\ req'[r].tab = req[r].tab
      /\ req'[r].kind = req[r].kind /\ req'[r].at = at
  BY <1>t, <1>2, MoveDoes DEF Places
<1>4. /\ row' \in [S!Sessions -> [token : 0..made, prev : 0..made, revoked : BOOLEAN]]
      /\ \A s \in S!Sessions : /\ row'[s].token = row[s].token /\ row'[s].prev = row[s].prev
                               /\ (row[s].revoked => row'[s].revoked)
  <2>1. CASE UNCHANGED row
    BY <2>1, <1>t
  <2>2. CASE S!Close(r)
    <3>1. row' = [s \in S!Sessions |->
               IF s \in S!Rotatable(req[r].token) \cup S!RotatedFrom(req[r].token)
               THEN [row[s] EXCEPT !.revoked = TRUE] ELSE row[s]]
      BY <2>2 DEF S!Close
    <3>2. \A s \in S!Sessions : [row[s] EXCEPT !.revoked = TRUE]
                                  \in [token : 0..made, prev : 0..made, revoked : BOOLEAN]
      BY <1>t
    <3> QED BY <1>t, <3>1, <3>2
  <2> QED BY <2>1, <2>2 DEF S!Forget, S!CloseFails, S!base
<1>5. /\ recent' \in [S!Tokens -> 0..made]
      /\ \A x \in S!Tokens : recent'[x] = recent[x] \/ (recent'[x] = 0 /\ x \in excused')
  <2>1. CASE UNCHANGED recent
    BY <2>1, <1>t
  <2>2. CASE recent' = [recent EXCEPT ![req[r].token] = 0] /\ req[r].token \in excused'
    BY <2>2, <1>t
  <2> QED BY <2>1, <2>2 DEF S!Forget, S!Close, S!CloseFails, S!gateway
<1>6. \A q \in S!Requests : req'[q].at \in Leading => req[q].token \in rotating'
  BY <1>1, <1>3 DEF SessionInv, LeadersInv, Leading, S!InRotation
<1>7. \A q \in S!Requests : req[q].at \in S!Rotated => req'[q] = req[q]
  BY <1>1, <1>3 DEF S!Rotated
<1> QED BY <1>1, <1>2, <1>3, <1>4, <1>5, <1>6, <1>7, <1>t, QuietSession

LEMMA SessionForgets ==
  ASSUME SessionInv, (\E k \in S!Tokens : S!WindowEnds(k)) \/ S!Restart \/ S!Disable
  PROVE  SessionInv'
<1>1. UNCHANGED <<row, made, of, jar, tab>> /\ (disabled => disabled')
      /\ excused \subseteq excused'
  BY DEF S!WindowEnds, S!Restart, S!Disable, S!base, S!browser
<1>t. S!TypeOK /\ made \in Nat /\ 0 \in 0..made
      /\ row' \in [S!Sessions -> [token : 0..made, prev : 0..made, revoked : BOOLEAN]]
      /\ recent \in [S!Tokens -> 0..made] /\ req \in [S!Requests -> CallsUpTo(made)]
      /\ rotating \subseteq S!Tokens
  BY <1>1, SessionTypes DEF SessionInv
<1>a. \A s \in S!Sessions : /\ row'[s].token = row[s].token /\ row'[s].prev = row[s].prev
                            /\ (row[s].revoked => row'[s].revoked)
  BY <1>1
<1>2. \A q \in S!Requests : req[q].at \in Leading => req[q].token \in rotating
  BY DEF SessionInv, LeadersInv
<1>3. CASE (\E k \in S!Tokens : S!WindowEnds(k)) \/ S!Disable
  <2>1. /\ UNCHANGED <<rotating, req>>
        /\ recent' \in [S!Tokens -> 0..made]
        /\ \A x \in S!Tokens : recent'[x] = recent[x] \/ (recent'[x] = 0 /\ x \in excused')
    BY <1>3, <1>t DEF S!WindowEnds, S!Disable, S!gateway
  <2> QED BY <1>1, <1>2, <1>t, <2>1, QuietSession
<1>4. CASE S!Restart
  <2>1. /\ recent' = [k \in S!Tokens |-> 0] /\ rotating' = {}
        /\ \A k \in S!Tokens : recent[k] # 0 => k \in excused'
        /\ \A q \in S!Requests : req[q].at \in S!Rotated => req[q].token \in excused'
    BY <1>4 DEF S!Restart
  <2>2. req' = [r \in S!Requests |->
               IF req[r].at \in S!InRotation \cup {"sent", "closing"}
               THEN [req[r] EXCEPT !.at = "unavailable"] ELSE req[r]]
    BY <1>4 DEF S!Restart
  <2>3. \A r \in S!Requests : [req[r] EXCEPT !.at = "unavailable"] \in CallsUpTo(made)
    BY <1>t DEF CallsUpTo, Places
  <2>4. req' \in [S!Requests -> CallsUpTo(made)]
    BY <1>t, <2>2, <2>3
  <2>5. \A q \in S!Requests : /\ req'[q].token = req[q].token /\ req'[q].tab = req[q].tab
                              /\ req'[q].kind = req[q].kind
                              /\ (req'[q] = req[q] \/ req'[q].at = "unavailable")
                              /\ req'[q].at \notin S!InRotation
    BY <1>t, <2>2 DEF CallsUpTo, S!InRotation
  <2>6. recent' \in [S!Tokens -> 0..made] /\ rotating' \subseteq S!Tokens
        /\ \A x \in S!Tokens : recent'[x] = recent[x] \/ (recent'[x] = 0 /\ x \in excused')
    BY <1>t, <2>1
  <2>7. \A q \in S!Requests : req'[q].at \notin Leading
    BY <2>5 DEF Leading
  <2> QED BY <1>1, <1>a, <1>t, <2>1, <2>4, <2>5, <2>6, <2>7, QuietSession
<1> QED BY <1>3, <1>4

LEMMA StepSession == SessionInv /\ [S!Next]_S!vars => SessionInv'
<1> SUFFICES ASSUME SessionInv, [S!Next]_S!vars PROVE SessionInv'
  OBVIOUS
<1>1. CASE \E t \in Tabs :
             S!Login(t) \/ S!Expire(t) \/ S!Refresh(t) \/ S!Logout(t) \/ S!Reload(t)
  BY <1>1, SessionLogin, SessionBrowser
<1>2. CASE \E r \in S!Requests : S!Serve(r)
  BY <1>2, SessionBegin, SessionRotate, SessionLook, SessionRevoke, SessionLoad,
     SessionLogoutServed DEF S!Serve
<1>3. CASE \E r \in S!Requests :
             S!Deliver(r) \/ S!Unavailable(r) \/ S!RotateUnknown(r) \/ S!CloseFails(r)
  BY <1>3, SessionDeliver, SessionUnavailable, SessionRotateUnknown, SessionLogoutServed
<1>4. CASE (\E k \in S!Tokens : S!WindowEnds(k)) \/ S!Restart \/ S!Disable
  BY <1>4, SessionForgets
<1>5. CASE UNCHANGED S!vars
  BY <1>5 DEF S!vars, SessionInv, S!TypeOK, RowsInv, LeadersInv, TabsInv, RenewInv, Lost,
     S!Spent
<1> QED BY <1>1, <1>2, <1>3, <1>4, <1>5 DEF S!Next

LEMMA SessionRenews == SessionInv => S!CookieRenews
<1> SUFFICES ASSUME SessionInv PROVE S!CookieRenews
  OBVIOUS
<1>1. S!TypeOK /\ (jar # 0 => jar \in 1..made)
  BY SessionTypes DEF SessionInv
<1>2. \A k : Lost(k) => S!Spent(k)
  BY DEF Lost, S!Spent
<1>3. \A r \in S!Requests : req[r].at \in S!Rotated => req[r].at = "loading" \/ disabled
  BY DEF S!Rotated, SessionInv, LeadersInv
<1>4. disabled => S!Spent(jar)
  BY DEF S!Spent
<1> QED BY <1>1, <1>2, <1>3, <1>4 DEF S!CookieRenews, SessionInv, RenewInv

(* Who is shown the form, and which session is closed.                     *)
LEMMA ThrownOutStep ==
  ASSUME SessionInv, [S!Next]_S!vars, NEW t \in Tabs, tab[t] \in {"app", "stale"}, tab'[t] = "form",
         NEW r \in S!Requests, req[r].tab = t, req[r].kind = "refresh"
  PROVE  S!Spent(req[r].token)
<1>t. S!TypeOK /\ tab \in [Tabs -> {"form", "app", "stale", "boot"}]
  BY SessionTypes DEF SessionInv
<1>1. PICK q \in S!Requests : S!Deliver(q)
  <2>1. ASSUME NEW u \in Tabs,
               S!Login(u) \/ S!Expire(u) \/ S!Refresh(u) \/ S!Logout(u) \/ S!Reload(u)
        PROVE  FALSE
    BY <1>t, <2>1 DEF S!Login, S!Expire, S!Refresh, S!Logout, S!Call, S!Reload, S!browser
  <2>2. ASSUME NEW q \in S!Requests,
               S!Serve(q) \/ S!Unavailable(q) \/ S!RotateUnknown(q) \/ S!CloseFails(q)
        PROVE  FALSE
    BY <2>2 DEF S!Serve, S!Begin, S!Rotate, S!Look, S!Revoke, S!Load, S!Forget, S!Close,
       S!CloseFails, S!Unavailable, S!RotateUnknown, S!browser
  <2>3. ASSUME (\E k \in S!Tokens : S!WindowEnds(k)) \/ S!Restart \/ S!Disable \/ UNCHANGED S!vars
        PROVE  FALSE
    BY <2>3 DEF S!WindowEnds, S!Restart, S!Disable, S!browser, S!vars
  <2> QED BY <2>1, <2>2, <2>3 DEF S!Next
<1>2. req[q].tab = t
  <2>1. \/ UNCHANGED tab
        \/ \E outcome : tab' = [tab EXCEPT ![req[q].tab] = S!Shown(q, outcome)]
    BY <1>1 DEF S!Deliver, S!Receive, S!Lose, S!browser
  <2> QED BY <1>t, <2>1
<1>3. q = r
  BY <1>2, SessionNumbers DEF SessionInv, TabsInv
<1>4. req[r].at = "refused"
  <2>1. PICK outcome : tab'[t] = S!Shown(r, outcome) /\ outcome \in {req[r].at, "unavailable"}
    BY <1>1, <1>2, <1>3, <1>t, SessionNumbers DEF S!Deliver, S!Receive, S!Lose
  <2>2. outcome = "refused"
    BY <2>1 DEF S!Shown
  <2> QED BY <2>1, <2>2
<1> QED BY <1>4 DEF SessionInv, TabsInv

LEMMA ReuseStep ==
  ASSUME SessionInv, [S!Next]_S!vars, NEW s \in S!Sessions, ~row[s].revoked, row'[s].revoked
  PROVE  \/ \E r \in S!Requests : req[r].at \in {"closing", "barring"} /\ req'[r].at # req[r].at
         \/ row[s].prev \in excused
<1>t. S!TypeOK /\ 0 \in 0..made
      /\ row \in [S!Sessions -> [token : 0..made, prev : 0..made, revoked : BOOLEAN]]
      /\ req \in [S!Requests -> CallsUpTo(made)]
  BY SessionTypes DEF SessionInv
<1>1. ASSUME UNCHANGED row PROVE FALSE
  BY <1>1
<1>2. CASE \E t \in Tabs :
             S!Login(t) \/ S!Expire(t) \/ S!Refresh(t) \/ S!Logout(t) \/ S!Reload(t)
  <2>1. PICK t \in Tabs : S!Login(t)
    BY <1>1, <1>2 DEF S!Expire, S!Refresh, S!Logout, S!Call, S!Reload, S!base
  <2>2. \E x \in S!Sessions : row' = [row EXCEPT ![x].token = made + 1]
    BY <2>1 DEF S!Login
  <2> QED BY <1>t, <2>2
<1>3. CASE \E r \in S!Requests : S!Serve(r)
  <2>1. PICK r \in S!Requests : S!Rotate(r) \/ S!Revoke(r) \/ S!Close(r)
    BY <1>1, <1>3 DEF S!Serve, S!Begin, S!Look, S!Load, S!Forget, S!base
  <2>2. CASE S!Rotate(r)
    <3>1. \E x \in S!Sessions :
            row' = [row EXCEPT ![x].token = made + 1, ![x].prev = req[r].token]
      BY <1>1, <2>2 DEF S!Rotate, S!Rotatable
    <3> QED BY <1>t, <3>1
  <2>3. CASE S!Revoke(r) /\ req[r].at = "revoking"
    <3>1. s \in S!RotatedFrom(req[r].token)
      BY <1>t, <2>3 DEF S!Revoke
    <3>2. row[s].prev = req[r].token /\ req[r].at \in Leading
      BY <2>3, <3>1 DEF S!RotatedFrom, Leading, S!InRotation
    <3>3. s = of[req[r].token]
      BY <3>1, <3>2, LeadsOwn
    <3>4. Lost(req[r].token)
      BY <2>3 DEF SessionInv, LeadersInv
    <3> QED BY <3>2, <3>3, <3>4 DEF Lost
  <2>4. CASE S!Revoke(r) /\ req[r].at = "barring"
    <3>1. PICK k : k = req[r].token
      OBVIOUS
    <3>2. S!Settle(k, "refused", 0)
      BY <2>4, <3>1 DEF S!Revoke
    <3>3. \A q \in S!Requests : req[q].token = k /\ req[q].at \in S!InRotation =>
            req'[q].at = "refused"
      BY ONLY <1>t, <3>2, SettleDoes
    <3>4. req'[r].at = "refused"
      BY <2>4, <3>1, <3>3 DEF S!InRotation
    <3> QED BY <2>4, <3>4
  <2>5. CASE S!Close(r)
    <3>1. req[r].at = "closing" /\ req'[r].at = "ok"
      BY <1>t, <2>5, MoveDoes DEF S!Close, Places
    <3> QED BY <3>1
  <2> QED BY <2>1, <2>2, <2>3, <2>4, <2>5 DEF S!Revoke
<1>4. CASE \E r \in S!Requests :
             S!Deliver(r) \/ S!Unavailable(r) \/ S!RotateUnknown(r) \/ S!CloseFails(r)
  <2>1. PICK r \in S!Requests : S!RotateUnknown(r)
    BY <1>1, <1>4 DEF S!Deliver, S!Receive, S!Lose, S!Unavailable, S!CloseFails, S!base
  <2>2. \E x \in S!Sessions :
          row' = [row EXCEPT ![x].token = made + 1, ![x].prev = req[r].token]
    BY <2>1 DEF S!RotateUnknown, S!Rotatable
  <2> QED BY <1>t, <2>2
<1>5. CASE (\E k \in S!Tokens : S!WindowEnds(k)) \/ S!Restart \/ S!Disable \/ UNCHANGED S!vars
  BY <1>1, <1>5 DEF S!WindowEnds, S!Restart, S!Disable, S!base, S!vars
<1> QED BY <1>2, <1>3, <1>4, <1>5 DEF S!Next
-------------------------------------------------------------------------------
(* The buffer: the batch and the queue are one sequence in the order of    *)
(* the poll, and whatever of it is older than a message of its topic that  *)
(* the broker holds has been there before.                                 *)
GoesUp(q) == \A j, k \in DOMAIN q : j < k => q[j] < q[k]

PumpInv ==
  /\ pump # "sending" => inFlight = <<>>
  /\ pump = "idle" /\ ~closed => queue = <<>>

HasBeen(held, waiting) ==
  \A j \in DOMAIN held, m \in waiting :
    m < held[j] /\ B!TopicOf(m) = B!TopicOf(held[j]) => \E i \in 1..j - 1 : held[i] = m
OrderIn(held) ==
  \A j, k \in DOMAIN held :
    j < k /\ held[k] < held[j] /\ B!TopicOf(held[k]) = B!TopicOf(held[j])
      => \E i \in 1..j - 1 : held[i] = held[k]

BrokerInv ==
  /\ \A j \in DOMAIN topics : topics[j] <= enqueued
  /\ HasBeen(topics, B!InQueue(B!Pending))

BufferInv == B!Conserved /\ PumpInv /\ BrokerInv

LEMMA BufferNumbers ==
  /\ MaxMessages \in Nat /\ MaxFailures \in Nat
  /\ BufferCapacity \in Nat \ {0} /\ BatchSize \in Nat \ {0} /\ Topics \in Nat \ {0}
BY EndsAssumption DEF EndsAssumption

LEMMA BufferTypes ==
  ASSUME B!TypeOK
  PROVE  /\ queue \in Seq(B!Messages) /\ inFlight \in Seq(B!Messages)
         /\ topics \in Seq(B!Messages) /\ enqueued \in Nat /\ enqueued <= MaxMessages
         /\ Len(queue) <= BufferCapacity /\ Len(inFlight) <= BatchSize
         /\ B!Pending \in Seq(B!Messages)
         /\ \A q \in Seq(B!Messages) : \A k \in DOMAIN q : q[k] \in Nat /\ q[k] \in B!Messages
<1>1. queue \in Seq(B!Messages) /\ inFlight \in Seq(B!Messages) /\ topics \in Seq(B!Messages)
      /\ enqueued \in Nat /\ enqueued <= MaxMessages /\ Len(queue) <= BufferCapacity
      /\ Len(inFlight) <= BatchSize
  BY BufferNumbers DEF B!TypeOK
<1>2. B!Pending \in Seq(B!Messages)
  BY <1>1 DEF B!Pending
<1>3. B!Messages \subseteq Nat
  BY BufferNumbers DEF B!Messages
<1>4. \A q \in Seq(B!Messages) : \A k \in DOMAIN q : q[k] \in B!Messages
  OBVIOUS
<1> QED BY <1>1, <1>2, <1>3, <1>4

(* Sequences put together and taken apart.                                 *)
LEMMA Joined ==
  ASSUME NEW M, NEW a \in Seq(M), NEW b \in Seq(M)
  PROVE  /\ a \o b \in Seq(M) /\ Len(a \o b) = Len(a) + Len(b)
         /\ DOMAIN (a \o b) = 1..Len(a) + Len(b)
         /\ \A k \in DOMAIN a : (a \o b)[k] = a[k]
         /\ \A k \in DOMAIN b : (a \o b)[Len(a) + k] = b[k]
         /\ \A k \in DOMAIN (a \o b) :
              \/ k \in DOMAIN a /\ (a \o b)[k] = a[k]
              \/ k > Len(a) /\ k - Len(a) \in DOMAIN b /\ (a \o b)[k] = b[k - Len(a)]
OBVIOUS

LEMMA JoinedSet ==
  ASSUME NEW M, NEW a \in Seq(M), NEW b \in Seq(M)
  PROVE  B!InQueue(a \o b) = B!InQueue(a) \cup B!InQueue(b)
<1>1. \A x \in B!InQueue(a \o b) : x \in B!InQueue(a) \cup B!InQueue(b)
  BY Joined DEF B!InQueue
<1>2. ASSUME NEW x \in B!InQueue(a) PROVE x \in B!InQueue(a \o b)
  <2>1. PICK k \in DOMAIN a : x = a[k]
    BY DEF B!InQueue
  <2>2. k \in DOMAIN (a \o b) /\ (a \o b)[k] = x
    BY <2>1, Joined
  <2> QED BY <2>2 DEF B!InQueue
<1>3. ASSUME NEW x \in B!InQueue(b) PROVE x \in B!InQueue(a \o b)
  <2>1. PICK k \in DOMAIN b : x = b[k]
    BY DEF B!InQueue
  <2>2. Len(a) + k \in DOMAIN (a \o b) /\ (a \o b)[Len(a) + k] = x
    BY <2>1, Joined
  <2> QED BY <2>2 DEF B!InQueue
<1> QED BY <1>1, <1>2, <1>3

LEMMA JoinedGoesUp ==
  ASSUME NEW a \in Seq(Nat), NEW b \in Seq(Nat)
  PROVE  GoesUp(a \o b) <=> /\ GoesUp(a) /\ GoesUp(b)
                            /\ \A x \in B!InQueue(a), y \in B!InQueue(b) : x < y
<1>1. ASSUME GoesUp(a \o b) PROVE GoesUp(a)
  BY <1>1, Joined DEF GoesUp
<1>2. ASSUME GoesUp(a \o b) PROVE GoesUp(b)
  <2> SUFFICES ASSUME NEW j \in DOMAIN b, NEW k \in DOMAIN b, j < k PROVE b[j] < b[k]
    BY DEF GoesUp
  <2>1. Len(a) + j \in DOMAIN (a \o b) /\ Len(a) + k \in DOMAIN (a \o b) /\ Len(a) + j < Len(a) + k
    BY Joined
  <2>2. (a \o b)[Len(a) + j] < (a \o b)[Len(a) + k]
    BY <1>2, <2>1 DEF GoesUp
  <2> QED BY <2>2, Joined
<1>3. ASSUME GoesUp(a \o b), NEW x \in B!InQueue(a), NEW y \in B!InQueue(b) PROVE x < y
  <2>1. PICK j \in DOMAIN a : x = a[j]
    BY DEF B!InQueue
  <2>2. PICK k \in DOMAIN b : y = b[k]
    BY DEF B!InQueue
  <2>3. j \in DOMAIN (a \o b) /\ Len(a) + k \in DOMAIN (a \o b) /\ j < Len(a) + k
    BY Joined
  <2>4. (a \o b)[j] < (a \o b)[Len(a) + k]
    BY <1>3, <2>3 DEF GoesUp
  <2> QED BY <2>1, <2>2, <2>4, Joined
<1>4. ASSUME GoesUp(a), GoesUp(b), \A x \in B!InQueue(a), y \in B!InQueue(b) : x < y
      PROVE  GoesUp(a \o b)
  <2> SUFFICES ASSUME NEW j \in DOMAIN (a \o b), NEW k \in DOMAIN (a \o b), j < k
               PROVE  (a \o b)[j] < (a \o b)[k]
    BY DEF GoesUp
  <2>1. CASE k \in DOMAIN a
    <3>1. j \in DOMAIN a
      BY <2>1, Joined
    <3> QED BY <1>4, <2>1, <3>1, Joined DEF GoesUp
  <2>2. CASE j \in DOMAIN a /\ k \notin DOMAIN a
    <3>1. k - Len(a) \in DOMAIN b /\ (a \o b)[k] = b[k - Len(a)] /\ (a \o b)[j] = a[j]
      BY <2>2, Joined
    <3> QED BY <1>4, <2>2, <3>1 DEF B!InQueue
  <2>3. CASE j \notin DOMAIN a
    <3>1. /\ j - Len(a) \in DOMAIN b /\ (a \o b)[j] = b[j - Len(a)]
          /\ k - Len(a) \in DOMAIN b /\ (a \o b)[k] = b[k - Len(a)]
          /\ j - Len(a) < k - Len(a)
      BY <2>3, Joined
    <3> QED BY <1>4, <3>1 DEF GoesUp
  <2> QED BY <2>1, <2>2, <2>3, Joined
<1> QED BY <1>1, <1>2, <1>3, <1>4

(* A sequence cut in two.                                                  *)
LEMMA Cut ==
  ASSUME NEW M, NEW q \in Seq(M), NEW n \in 0..Len(q)
  PROVE  /\ SubSeq(q, 1, n) \in Seq(M) /\ Len(SubSeq(q, 1, n)) = n
         /\ SubSeq(q, n + 1, Len(q)) \in Seq(M) /\ Len(SubSeq(q, n + 1, Len(q))) = Len(q) - n
         /\ SubSeq(q, 1, n) \o SubSeq(q, n + 1, Len(q)) = q
<1>1. SubSeq(q, 1, n) \in Seq(M) /\ Len(SubSeq(q, 1, n)) = n
      /\ SubSeq(q, n + 1, Len(q)) \in Seq(M) /\ Len(SubSeq(q, n + 1, Len(q))) = Len(q) - n
  OBVIOUS
<1>2. SubSeq(q, 1, n) \o SubSeq(q, n + 1, Len(q)) = SubSeq(q, 1, Len(q))
  <2>1. 1 \in 1..Len(q) + 1 /\ n \in 1 - 1..Len(q) /\ Len(q) \in n..Len(q)
    OBVIOUS
  <2> QED BY ONLY <2>1, q \in Seq(M), ConcatAdjacentSubSeq
<1> QED BY <1>1, <1>2, SubSeqFull

(* What trim keeps and what it gives up.                                   *)
LEMMA TrimDoes ==
  ASSUME NEW q \in Seq(B!Messages), GoesUp(q)
  PROVE  /\ B!Trimmed(q) \in Seq(B!Messages) /\ Len(B!Trimmed(q)) <= BufferCapacity
         /\ GoesUp(B!Trimmed(q))
         /\ B!InQueue(q) = B!TrimmedOff(q) \cup B!InQueue(B!Trimmed(q))
         /\ \A x \in B!TrimmedOff(q), y \in B!InQueue(B!Trimmed(q)) : x < y
         /\ B!TrimmedOff(q) # {} => Len(B!Trimmed(q)) = BufferCapacity
         /\ Len(q) <= BufferCapacity => B!Trimmed(q) = q
<1> DEFINE n == B!Excess(q)
           a == SubSeq(q, 1, n)
           b == SubSeq(q, n + 1, Len(q))
<1>1. /\ n \in 0..Len(q) /\ Len(q) - n <= BufferCapacity
      /\ n # 0 => Len(q) - n = BufferCapacity
      /\ Len(q) <= BufferCapacity => n = 0
  BY BufferNumbers DEF B!Excess
<1>2. a = SubSeq(q, 1, B!Excess(q)) /\ b = B!Trimmed(q) /\ B!TrimmedOff(q) = B!InQueue(a)
  BY DEF B!Trimmed, B!TrimmedOff
<1> HIDE DEF n
<1>3. /\ a \in Seq(B!Messages) /\ Len(a) = n /\ b \in Seq(B!Messages) /\ Len(b) = Len(q) - n
      /\ a \o b = q
  BY <1>1, Cut
<1> HIDE DEF a, b
<1>4. a \in Seq(Nat) /\ b \in Seq(Nat)
  <2>1. B!Messages \subseteq Nat
    BY BufferNumbers DEF B!Messages
  <2> QED BY <1>3, <2>1, SeqMonotonic
<1>5. GoesUp(b) /\ \A x \in B!InQueue(a), y \in B!InQueue(b) : x < y
  BY <1>3, <1>4, JoinedGoesUp
<1>6. B!InQueue(q) = B!InQueue(a) \cup B!InQueue(b)
  <2>1. B!InQueue(a \o b) = B!InQueue(a) \cup B!InQueue(b)
    BY <1>4, JoinedSet
  <2> QED BY <1>3, <2>1
<1>7. B!InQueue(a) # {} => n # 0
  BY <1>1, <1>3 DEF B!InQueue
<1>8. n = 0 => b = q
  <2> SUFFICES ASSUME n = 0 PROVE b = q
    OBVIOUS
  <2>1. a = <<>>
    BY <1>3
  <2> QED BY <1>3, <2>1, ConcatEmptySeq
<1> QED BY <1>1, <1>2, <1>3, <1>5, <1>6, <1>7, <1>8

(* The next batch and what stays behind it are the queue as it was.        *)
LEMMA TurnDoes ==
  ASSUME NEW q \in Seq(B!Messages), Len(q) <= BufferCapacity, B!TurnOf(q), closed' = closed
  PROVE  /\ queue' \in Seq(B!Messages) /\ Len(queue') <= BufferCapacity
         /\ inFlight' \in Seq(B!Messages) /\ Len(inFlight') <= BatchSize
         /\ inFlight' \o queue' = q /\ pump' \in {"sending", "ending"} /\ PumpInv'
<1> USE BufferNumbers
<1>1. CASE q # <<>> /\ ~closed
  <2> DEFINE n == IF Len(q) < BatchSize THEN Len(q) ELSE BatchSize
  <2>1. n \in 0..Len(q) /\ n <= BatchSize
    OBVIOUS
  <2>2. B!FirstBatch(q) = SubSeq(q, 1, n)
    BY DEF B!FirstBatch
  <2> HIDE DEF n
  <2>3. /\ SubSeq(q, 1, n) \in Seq(B!Messages) /\ Len(SubSeq(q, 1, n)) = n
        /\ SubSeq(q, n + 1, Len(q)) \in Seq(B!Messages)
        /\ Len(SubSeq(q, n + 1, Len(q))) = Len(q) - n
        /\ SubSeq(q, 1, n) \o SubSeq(q, n + 1, Len(q)) = q
    BY <2>1, Cut
  <2>4. inFlight' = SubSeq(q, 1, n) /\ queue' = SubSeq(q, n + 1, Len(q)) /\ pump' = "sending"
    BY <1>1, <2>2, <2>3 DEF B!TurnOf
  <2>5. PumpInv'
    BY <2>4 DEF PumpInv
  <2>6. /\ queue' \in Seq(B!Messages) /\ inFlight' \in Seq(B!Messages) /\ inFlight' \o queue' = q
        /\ Len(inFlight') = n /\ Len(queue') = Len(q) - n
    BY <2>3, <2>4
  <2>7. Len(queue') <= BufferCapacity /\ Len(inFlight') <= BatchSize
    BY <2>1, <2>6
  <2> QED BY <2>4, <2>5, <2>6, <2>7
<1>2. CASE ~(q # <<>> /\ ~closed)
  <2>1. inFlight' = <<>> /\ queue' = q /\ pump' = "ending"
    BY <1>2 DEF B!TurnOf
  <2>2. <<>> \o q = q /\ <<>> \in Seq(B!Messages) /\ Len(<<>>) = 0
    BY ConcatEmptySeq
  <2>3. PumpInv'
    BY <2>1 DEF PumpInv
  <2>4. /\ queue' \in Seq(B!Messages) /\ inFlight' \in Seq(B!Messages) /\ inFlight' \o queue' = q
        /\ Len(inFlight') = 0 /\ Len(queue') = Len(q)
    BY <2>1, <2>2
  <2> QED BY <2>1, <2>3, <2>4
<1> QED BY <1>1, <1>2

(* The log of the broker after some of a batch: what is older has been    *)
(* there before, and so has what is still to come.                         *)
LEMMA LogGrows ==
  ASSUME NEW held \in Seq(Nat), NEW arrives \in Seq(Nat), NEW P \in SUBSET Nat, NEW R \in SUBSET P,
         HasBeen(held, P), OrderIn(held), GoesUp(arrives), B!InQueue(arrives) \subseteq P,
         \A m \in R, t \in B!InQueue(arrives) :
           m < t /\ B!TopicOf(m) = B!TopicOf(t) => m \in B!InQueue(arrives)
  PROVE  HasBeen(held \o arrives, R) /\ OrderIn(held \o arrives)
<1> DEFINE new == held \o arrives
<1>1. /\ Len(new) = Len(held) + Len(arrives) /\ DOMAIN new = 1..Len(held) + Len(arrives)
      /\ DOMAIN held = 1..Len(held) /\ DOMAIN arrives = 1..Len(arrives)
      /\ Len(held) \in Nat /\ Len(arrives) \in Nat
      /\ \A k \in DOMAIN held : new[k] = held[k]
      /\ \A k \in DOMAIN arrives : new[Len(held) + k] = arrives[k]
      /\ \A k \in DOMAIN new : \/ k \in DOMAIN held /\ new[k] = held[k]
                               \/ k > Len(held) /\ k - Len(held) \in DOMAIN arrives
                                  /\ new[k] = arrives[k - Len(held)]
  BY Joined
<1>2. \A k \in DOMAIN arrives : arrives[k] \in B!InQueue(arrives) /\ arrives[k] \in Nat
  BY DEF B!InQueue
<1>3. \A k \in DOMAIN held : held[k] \in Nat
  OBVIOUS
<1> HIDE DEF new
<1>4. HasBeen(new, R)
  <2> SUFFICES ASSUME NEW j \in DOMAIN new, NEW m \in R,
                      m < new[j], B!TopicOf(m) = B!TopicOf(new[j])
               PROVE  \E i \in 1..j - 1 : new[i] = m
    BY DEF HasBeen
  <2>1. CASE j \in DOMAIN held
    <3>1. new[j] = held[j]
      BY <1>1, <2>1
    <3>2. PICK i \in 1..j - 1 : held[i] = m
      BY <2>1, <3>1 DEF HasBeen
    <3>3. i \in DOMAIN held
      BY <1>1, <2>1
    <3> QED BY <1>1, <3>2, <3>3
  <2>2. CASE j \notin DOMAIN held
    <3>1. j > Len(held) /\ j - Len(held) \in DOMAIN arrives /\ new[j] = arrives[j - Len(held)]
      BY <1>1, <2>2
    <3>2. m \in B!InQueue(arrives)
      BY <1>2, <3>1
    <3>3. PICK x \in DOMAIN arrives : arrives[x] = m
      BY <3>2 DEF B!InQueue
    <3>4. x < j - Len(held)
      <4>1. ~(j - Len(held) < x) /\ j - Len(held) # x
        BY <1>2, <3>1, <3>3 DEF GoesUp
      <4> QED BY <1>1, <3>1, <4>1
    <3>5. new[Len(held) + x] = m /\ Len(held) + x \in 1..j - 1
      BY <1>1, <3>1, <3>3, <3>4
    <3> QED BY <3>5
  <2> QED BY <2>1, <2>2
<1>5. OrderIn(new)
  <2> SUFFICES ASSUME NEW j \in DOMAIN new, NEW k \in DOMAIN new, j < k, new[k] < new[j],
                      B!TopicOf(new[k]) = B!TopicOf(new[j])
               PROVE  \E i \in 1..j - 1 : new[i] = new[k]
    BY DEF OrderIn
  <2>1. CASE j \in DOMAIN held
    <3>1. new[j] = held[j]
      BY <1>1, <2>1
    <3>2. \E i \in 1..j - 1 : held[i] = new[k]
      <4>1. CASE k \in DOMAIN held
        <5>1. new[k] = held[k]
          BY <1>1, <4>1
        <5>2. held[k] < held[j] /\ B!TopicOf(held[k]) = B!TopicOf(held[j])
          BY <3>1, <5>1
        <5>3. \E i \in 1..j - 1 : held[i] = held[k]
          BY <2>1, <4>1, <5>2 DEF OrderIn
        <5> QED BY <5>1, <5>3
      <4>2. CASE k \notin DOMAIN held
        <5>1. new[k] \in P
          BY <1>1, <1>2, <4>2
        <5>2. \A m \in P : m < held[j] /\ B!TopicOf(m) = B!TopicOf(held[j])
                             => \E i \in 1..j - 1 : held[i] = m
          BY <2>1 DEF HasBeen
        <5>3. new[k] < held[j] /\ B!TopicOf(new[k]) = B!TopicOf(held[j])
          BY <3>1
        <5> QED BY <5>1, <5>2, <5>3
      <4> QED BY <4>1, <4>2
    <3>3. PICK i \in 1..j - 1 : held[i] = new[k]
      BY <3>2
    <3>4. i \in DOMAIN held
      BY <1>1, <2>1
    <3> QED BY <1>1, <3>3, <3>4
  <2>2. CASE j \notin DOMAIN held
    <3>1. /\ j - Len(held) \in DOMAIN arrives /\ new[j] = arrives[j - Len(held)]
          /\ k - Len(held) \in DOMAIN arrives /\ new[k] = arrives[k - Len(held)]
          /\ j - Len(held) < k - Len(held)
      BY <1>1, <2>2
    <3>2. new[j] < new[k] /\ new[j] \in Nat /\ new[k] \in Nat
      BY <1>2, <3>1 DEF GoesUp
    <3> QED BY <3>2
  <2> QED BY <2>1, <2>2
<1> QED BY <1>4, <1>5 DEF new

(* What the invariant says, in the terms of the lemmas.                    *)
LEMMA BufferFacts ==
  ASSUME BufferInv
  PROVE  /\ B!TypeOK /\ PumpInv
         /\ B!Pending = inFlight \o queue /\ B!Pending \in Seq(B!Messages)
         /\ queue \in Seq(Nat) /\ inFlight \in Seq(Nat) /\ topics \in Seq(Nat) /\ B!Pending \in Seq(Nat)
         /\ GoesUp(B!Pending) /\ GoesUp(inFlight) /\ GoesUp(queue)
         /\ \A x \in B!InQueue(inFlight), y \in B!InQueue(queue) : x < y
         /\ B!InQueue(B!Pending) = B!InQueue(inFlight) \cup B!InQueue(queue)
         /\ OrderIn(topics) /\ HasBeen(topics, B!InQueue(B!Pending))
         /\ \A j \in DOMAIN topics : topics[j] <= enqueued
         /\ acked \cup dropped \cup B!InQueue(B!Pending) = 1..enqueued
         /\ acked \cap dropped = {} /\ (acked \cup dropped) \cap B!InQueue(B!Pending) = {}
<1>1. B!TypeOK /\ PumpInv
  BY DEF BufferInv, B!Conserved
<1>2. B!Messages \subseteq Nat
  BY BufferNumbers DEF B!Messages
<1>3. B!Pending = inFlight \o queue /\ B!Pending \in Seq(B!Messages)
  BY <1>1, BufferTypes DEF B!Pending
<1>4. /\ queue \in Seq(Nat) /\ inFlight \in Seq(Nat) /\ topics \in Seq(Nat)
      /\ B!Pending \in Seq(Nat)
  BY <1>1, <1>2, <1>3, BufferTypes, SeqMonotonic
<1>5. /\ acked \cup dropped \cup B!InQueue(B!Pending) = 1..enqueued
      /\ acked \cap dropped = {} /\ (acked \cup dropped) \cap B!InQueue(B!Pending) = {}
      /\ GoesUp(B!Pending)
  BY DEF BufferInv, B!Conserved, B!EveryMessageAccounted, GoesUp
<1>6. /\ GoesUp(inFlight) /\ GoesUp(queue)
      /\ \A x \in B!InQueue(inFlight), y \in B!InQueue(queue) : x < y
  BY <1>3, <1>4, <1>5, JoinedGoesUp
<1>7. B!InQueue(B!Pending) = B!InQueue(inFlight) \cup B!InQueue(queue)
  BY <1>3, <1>4, JoinedSet
<1>8. /\ OrderIn(topics) /\ HasBeen(topics, B!InQueue(B!Pending))
      /\ \A j \in DOMAIN topics : topics[j] <= enqueued
  BY DEF BufferInv, B!Conserved, B!TopicOrder, BrokerInv, OrderIn
<1> QED BY <1>1, <1>3, <1>4, <1>5, <1>6, <1>7, <1>8

(* And what a step has to leave behind.                                    *)
LEMMA BufferHolds ==
  ASSUME B!TypeOK', PumpInv', B!InQueue(inFlight' \o queue') \in SUBSET Nat,
         acked' \cup dropped' \cup B!InQueue(inFlight' \o queue') = 1..enqueued',
         acked' \cap dropped' = {},
         (acked' \cup dropped') \cap B!InQueue(inFlight' \o queue') = {},
         GoesUp(inFlight' \o queue'), OrderIn(topics'),
         HasBeen(topics', B!InQueue(inFlight' \o queue')),
         \A j \in DOMAIN topics' : topics'[j] <= enqueued'
  PROVE  BufferInv'
<1>1. B!Pending' = inFlight' \o queue'
  BY DEF B!Pending
<1>2. B!InQueue(B!Pending)' = B!InQueue(inFlight' \o queue')
  BY <1>1 DEF B!InQueue
<1>3. B!EveryMessageAccounted'
  <2>1. \A j, k \in DOMAIN B!Pending' : j < k => B!Pending'[j] < B!Pending'[k]
    BY <1>1 DEF GoesUp
  <2> QED BY <1>2, <2>1 DEF B!EveryMessageAccounted
<1>4. B!TopicOrder'
  BY DEF B!TopicOrder, OrderIn
<1>5. BrokerInv'
  <2>1. HasBeen(topics, B!InQueue(B!Pending))'
    BY <1>2 DEF HasBeen
  <2> QED BY <2>1 DEF BrokerInv
<1> QED BY <1>3, <1>4, <1>5 DEF BufferInv, B!Conserved

(* Enqueue: the new message is newer than all, and the oldest go.          *)
LEMMA EnqueueTurns ==
  ASSUME BufferInv, B!Enqueue, NEW q, q = Append(queue, enqueued + 1)
  PROVE  /\ q \in Seq(B!Messages) /\ GoesUp(q)
         /\ queue' \in Seq(B!Messages) /\ Len(queue') <= BufferCapacity
         /\ inFlight' \in Seq(B!Messages) /\ Len(inFlight') <= BatchSize
         /\ inFlight' \o queue' = inFlight \o B!Trimmed(q)
         /\ pump' \in {"idle", "sending", "sleeping", "ending"} /\ PumpInv'
         /\ B!InQueue(q) = B!InQueue(queue) \cup {enqueued + 1}
         /\ \A x \in B!InQueue(inFlight), y \in B!InQueue(q) : x < y
         /\ \A x \in B!InQueue(inFlight \o queue) : x < enqueued + 1
         /\ \/ queue = <<>> /\ Len(q) = 1
            \/ queue' = B!Trimmed(q)
<1> DEFINE n == enqueued + 1
           p == inFlight \o queue
<1>1. B!TypeOK /\ PumpInv /\ enqueued \in Nat /\ n \in B!Messages /\ n \in Nat
  <2>1. B!TypeOK /\ PumpInv
    BY BufferFacts
  <2>2. enqueued \in Nat /\ enqueued < MaxMessages
    BY <2>1, BufferTypes DEF B!Enqueue
  <2> QED BY <2>1, <2>2, BufferNumbers DEF B!Messages
<1>2. /\ queue \in Seq(B!Messages) /\ inFlight \in Seq(B!Messages) /\ Len(inFlight) <= BatchSize
      /\ queue \in Seq(Nat) /\ inFlight \in Seq(Nat) /\ p \in Seq(Nat) /\ GoesUp(p)
      /\ \A x \in B!InQueue(p) : x \in Nat /\ x < n
  <2>1. /\ queue \in Seq(B!Messages) /\ inFlight \in Seq(B!Messages) /\ Len(inFlight) <= BatchSize
    BY <1>1, BufferTypes
  <2>2. /\ queue \in Seq(Nat) /\ inFlight \in Seq(Nat) /\ p \in Seq(Nat) /\ GoesUp(p)
        /\ B!InQueue(p) \subseteq 1..enqueued
    BY BufferFacts
  <2> QED BY <1>1, <2>1, <2>2
<1>3. q \in Seq(B!Messages) /\ q = queue \o <<n>> /\ <<n>> \in Seq(B!Messages) /\ <<n>> \in Seq(Nat)
      /\ B!InQueue(<<n>>) = {n} /\ GoesUp(<<n>>)
  BY <1>1, <1>2, AppendIsConcat DEF B!InQueue, GoesUp
<1>4. B!InQueue(q) = B!InQueue(queue) \cup {n}
  <2>1. PICK last : last = <<n>>
    OBVIOUS
  <2>2. queue \in Seq(Nat) /\ last \in Seq(Nat)
    BY <1>2, <1>3, <2>1
  <2>3. B!InQueue(queue \o last) = B!InQueue(queue) \cup B!InQueue(last)
    BY <2>2, JoinedSet
  <2> QED BY <1>3, <2>1, <2>3
<1>5. inFlight \o q = p \o <<n>>
  BY <1>2, <1>3, ConcatAssociative
<1>6. q \in Seq(Nat) /\ GoesUp(p \o <<n>>)
  <2>1. \A x \in B!InQueue(p), y \in B!InQueue(<<n>>) : x < y
    BY <1>2, <1>3
  <2> HIDE DEF p, n
  <2>2. GoesUp(p \o <<n>>)
    BY <1>2, <1>3, <2>1, JoinedGoesUp
  <2> QED BY <1>2, <1>3, <2>2
<1>7. GoesUp(q) /\ \A x \in B!InQueue(inFlight), y \in B!InQueue(q) : x < y
  BY <1>2, <1>5, <1>6, JoinedGoesUp
<1>8. B!Trimmed(q) \in Seq(B!Messages) /\ Len(B!Trimmed(q)) <= BufferCapacity
  BY <1>3, <1>7, TrimDoes
<1>9. closed' = closed /\ enqueued' = n
  BY DEF B!Enqueue
<1>10. CASE pump = "idle" /\ ~closed
  <2>1. inFlight = <<>> /\ queue = <<>>
    BY <1>1, <1>10 DEF PumpInv
  <2>2. B!TurnOf(B!Trimmed(q))
    BY <1>9, <1>10 DEF B!Enqueue
  <2>3. /\ queue' \in Seq(B!Messages) /\ Len(queue') <= BufferCapacity
        /\ inFlight' \in Seq(B!Messages) /\ Len(inFlight') <= BatchSize
        /\ inFlight' \o queue' = B!Trimmed(q) /\ pump' \in {"sending", "ending"} /\ PumpInv'
    BY <1>8, <1>9, <2>2, TurnDoes
  <2>4. inFlight \o B!Trimmed(q) = B!Trimmed(q)
    BY <1>8, <2>1, ConcatEmptySeq
  <2>5. Len(q) = 1
    BY <2>1
  <2>6. pump' \in {"idle", "sending", "sleeping", "ending"}
    BY <2>3
  <2> QED BY <1>2, <1>3, <1>4, <1>7, <2>1, <2>3, <2>4, <2>5, <2>6
<1>11. CASE ~(pump = "idle" /\ ~closed)
  <2>1. queue' = B!Trimmed(q) /\ inFlight' = inFlight /\ pump' = pump
    BY <1>9, <1>11 DEF B!Enqueue
  <2>2. pump \in {"idle", "sending", "sleeping", "ending"}
    BY <1>1 DEF B!TypeOK
  <2>3. PumpInv'
    BY <1>1, <1>9, <1>11, <2>1 DEF PumpInv
  <2> QED BY <1>2, <1>3, <1>4, <1>7, <1>8, <2>1, <2>2, <2>3
<1> QED BY <1>10, <1>11

LEMMA EnqueueHolds ==
  ASSUME BufferInv, B!Enqueue
  PROVE  BufferInv' /\ \A m \in dropped' \ dropped :
                         Len(queue') = BufferCapacity /\ \A k \in DOMAIN queue' : queue'[k] > m
<1>1. PICK q : q = Append(queue, enqueued + 1)
  OBVIOUS
<1>2. /\ q \in Seq(B!Messages) /\ GoesUp(q)
      /\ queue' \in Seq(B!Messages) /\ Len(queue') <= BufferCapacity
      /\ inFlight' \in Seq(B!Messages) /\ Len(inFlight') <= BatchSize
      /\ inFlight' \o queue' = inFlight \o B!Trimmed(q)
      /\ pump' \in {"idle", "sending", "sleeping", "ending"} /\ PumpInv'
      /\ B!InQueue(q) = B!InQueue(queue) \cup {enqueued + 1}
      /\ \A x \in B!InQueue(inFlight), y \in B!InQueue(q) : x < y
      /\ \A x \in B!InQueue(inFlight \o queue) : x < enqueued + 1
      /\ (queue = <<>> /\ Len(q) = 1) \/ queue' = B!Trimmed(q)
  BY <1>1, EnqueueTurns
<1>3. PICK T : T = B!Trimmed(q)
  OBVIOUS
<1>4. PICK O : O = B!TrimmedOff(q)
  OBVIOUS
<1>5. /\ T \in Seq(B!Messages) /\ GoesUp(T) /\ B!InQueue(q) = O \cup B!InQueue(T)
      /\ \A x \in O, y \in B!InQueue(T) : x < y
      /\ O # {} => Len(T) = BufferCapacity
      /\ Len(q) <= BufferCapacity => T = q
  BY <1>2, <1>3, <1>4, TrimDoes
<1>6. /\ enqueued' = enqueued + 1 /\ dropped' = dropped \cup O
      /\ acked' = acked /\ closed' = closed /\ topics' = topics /\ failures' = failures
  BY <1>1, <1>4 DEF B!Enqueue
<1>7. PICK G : G = B!InQueue(inFlight)
  OBVIOUS
<1>8. PICK Q : Q = B!InQueue(queue)
  OBVIOUS
<1>9. PICK R : R = B!InQueue(T)
  OBVIOUS
<1>10. /\ B!TypeOK /\ enqueued \in Nat /\ enqueued < MaxMessages /\ B!Messages \subseteq Nat
       /\ inFlight \in Seq(B!Messages) /\ inFlight \in Seq(Nat) /\ T \in Seq(Nat) /\ GoesUp(inFlight)
       /\ B!InQueue(inFlight \o queue) = G \cup Q
       /\ acked \cup dropped \cup G \cup Q = 1..enqueued
       /\ acked \cap dropped = {} /\ (acked \cup dropped) \cap (G \cup Q) = {}
       /\ OrderIn(topics) /\ HasBeen(topics, G \cup Q)
       /\ \A j \in DOMAIN topics : topics[j] <= enqueued
       /\ topics \in Seq(Nat)
  <2>1. B!TypeOK /\ enqueued \in Nat /\ enqueued < MaxMessages
    BY BufferFacts, BufferTypes DEF B!Enqueue
  <2>2. B!Messages \subseteq Nat
    BY BufferNumbers DEF B!Messages
  <2>3. T \in Seq(Nat)
    BY <1>5, <2>2, SeqMonotonic
  <2>4. inFlight \in Seq(B!Messages)
    BY <2>1, BufferTypes
  <2> QED BY <1>7, <1>8, <2>1, <2>2, <2>3, <2>4, BufferFacts
<1>11. /\ B!InQueue(inFlight' \o queue') = G \cup R /\ GoesUp(inFlight' \o queue')
  <2>1. B!InQueue(inFlight \o T) = B!InQueue(inFlight) \cup B!InQueue(T)
    BY <1>10, JoinedSet
  <2>2. \A x \in B!InQueue(inFlight), y \in B!InQueue(T) : x < y
    BY <1>2, <1>5
  <2>3. GoesUp(inFlight \o T)
    BY <1>5, <1>10, <2>2, JoinedGoesUp
  <2> QED BY <1>2, <1>3, <1>7, <1>9, <2>1, <2>3
<1>12. /\ O \cup R = Q \cup {enqueued + 1} /\ O \cap R = {}
       /\ O \subseteq Nat /\ R \subseteq Nat
       /\ O \subseteq B!Messages
       /\ G \cap (O \cup R) = {}
  <2>1. O \cup R = Q \cup {enqueued + 1} /\ \A x \in G, y \in O \cup R : x < y
    BY <1>2, <1>5, <1>7, <1>8, <1>9
  <2>2. G \cup Q \subseteq B!Messages /\ enqueued + 1 \in B!Messages
    <3>1. 1..enqueued \subseteq B!Messages /\ enqueued + 1 \in B!Messages
      BY <1>10, BufferNumbers DEF B!Messages
    <3> QED BY <1>10, <3>1
  <2>3. O \subseteq Nat /\ R \subseteq Nat /\ O \subseteq B!Messages
    <3>1. O \cup R \subseteq B!Messages
      BY ONLY <2>1, <2>2
    <3>2. B!Messages \subseteq Nat
      BY <1>10
    <3> QED BY ONLY <3>1, <3>2
  <2>4. \A x \in Nat : ~(x < x)
    OBVIOUS
  <2>5. O \cap R = {}
    BY <1>5, <1>9, <2>3, <2>4
  <2>6. G \cap (O \cup R) = {}
    BY <2>1, <2>3, <2>4
  <2> QED BY <2>1, <2>3, <2>5, <2>6
<1>13. /\ acked' \cup dropped' \cup (G \cup R) = 1..enqueued'
       /\ acked' \cap dropped' = {} /\ (acked' \cup dropped') \cap (G \cup R) = {}
  <2>1. enqueued + 1 \notin 1..enqueued /\ (1..enqueued) \cup {enqueued + 1} = 1..enqueued + 1
    BY <1>10
  <2>2. acked' \cup dropped' \cup (G \cup R) = (acked \cup dropped \cup G \cup Q) \cup {enqueued + 1}
    BY <1>6, <1>12
  <2>3. enqueued + 1 \notin acked
    BY <1>10, <2>1
  <2>4. acked \cap (O \cup R) = {}
    BY <1>10, <1>12, <2>3
  <2>5. dropped \cap (O \cup R) = {}
    BY <1>10, <1>12, <2>1
  <2> QED BY <1>6, <1>10, <1>12, <2>1, <2>2, <2>4, <2>5
<1>14. HasBeen(topics, G \cup R)
  <2> SUFFICES ASSUME NEW j \in DOMAIN topics, NEW m \in G \cup R,
                      m < topics[j], B!TopicOf(m) = B!TopicOf(topics[j])
               PROVE  \E i \in 1..j - 1 : topics[i] = m
    BY DEF HasBeen
  <2>1. topics[j] <= enqueued /\ topics[j] \in Nat
    BY <1>10
  <2>2. m # enqueued + 1
    BY <1>10, <2>1
  <2>3. m \in G \cup Q
    BY <1>12, <2>2
  <2> QED BY <1>10, <2>3 DEF HasBeen
<1>15. \A j \in DOMAIN topics : topics[j] <= enqueued + 1
  BY <1>10
<1>16. B!TypeOK'
  <2>1. enqueued' \in 0..MaxMessages
    BY <1>6, <1>10, BufferNumbers
  <2>2. dropped' \subseteq B!Messages
    BY <1>6, <1>10, <1>12 DEF B!TypeOK
  <2> QED BY <1>2, <1>6, <1>10, <2>1, <2>2 DEF B!TypeOK
<1>17. BufferInv'
  BY <1>2, <1>6, <1>10, <1>11, <1>12, <1>13, <1>14, <1>15, <1>16, BufferHolds
<1>18. ASSUME NEW m \in dropped' \ dropped
       PROVE  Len(queue') = BufferCapacity /\ \A k \in DOMAIN queue' : queue'[k] > m
  <2>1. m \in O /\ m \in Nat
    BY <1>6, <1>12
  <2>2. ~(Len(q) = 1)
    <3>1. T # q
      BY <1>5, <1>9, <1>12, <2>1
    <3>2. 1 <= BufferCapacity
      BY BufferNumbers
    <3> QED BY <1>5, <3>1, <3>2
  <2>3. queue' = T
    BY <1>2, <1>3, <2>2
  <2>4. \A k \in DOMAIN T : T[k] \in B!InQueue(T) /\ T[k] \in Nat
    BY <1>10 DEF B!InQueue
  <2> QED BY <1>5, <2>1, <2>3, <2>4
<1> QED BY <1>17, <1>18

(* What reaches the broker of a batch keeps the order of its topics.       *)
LEMMA BrokerGets ==
  ASSUME BufferInv, NEW arrives \in Seq(Nat), GoesUp(arrives),
         B!InQueue(arrives) \subseteq B!InQueue(inFlight),
         NEW R \in SUBSET B!InQueue(B!Pending),
         \A m \in R, x \in B!InQueue(arrives) :
           m < x /\ B!TopicOf(m) = B!TopicOf(x) => m \in B!InQueue(arrives),
         topics' = topics \o arrives
  PROVE  /\ OrderIn(topics') /\ HasBeen(topics', R) /\ topics' \in Seq(B!Messages)
         /\ \A j \in DOMAIN topics' : topics'[j] <= enqueued
<1>1. PICK P : P = B!InQueue(B!Pending)
  OBVIOUS
<1>2. /\ topics \in Seq(Nat) /\ OrderIn(topics) /\ HasBeen(topics, P)
      /\ B!InQueue(arrives) \subseteq P /\ P \subseteq 1..enqueued
      /\ \A j \in DOMAIN topics : topics[j] <= enqueued
  BY <1>1, BufferFacts
<1>3. enqueued \in Nat /\ enqueued <= MaxMessages /\ topics \in Seq(B!Messages)
  BY BufferFacts, BufferTypes
<1>4. P \in SUBSET Nat /\ R \in SUBSET P
  BY <1>1, <1>2, <1>3
<1>5. HasBeen(topics \o arrives, R) /\ OrderIn(topics \o arrives)
  BY <1>2, <1>4, LogGrows
<1>6. \A k \in DOMAIN arrives : arrives[k] \in 1..enqueued /\ arrives[k] \in B!Messages
  <2>1. \A k \in DOMAIN arrives : arrives[k] \in 1..enqueued
    BY <1>2 DEF B!InQueue
  <2>2. 1..enqueued \subseteq B!Messages
    BY <1>3, BufferNumbers DEF B!Messages
  <2> QED BY <2>1, <2>2
<1>7. arrives \in Seq(B!Messages)
  BY <1>6
<1>8. topics' \in Seq(B!Messages)
  BY <1>3, <1>7
<1>9. \A j \in DOMAIN topics' : topics'[j] <= enqueued
  <2> SUFFICES ASSUME NEW j \in DOMAIN (topics \o arrives)
               PROVE  (topics \o arrives)[j] <= enqueued
    OBVIOUS
  <2>1. \/ j \in DOMAIN topics /\ (topics \o arrives)[j] = topics[j]
        \/ j - Len(topics) \in DOMAIN arrives /\ (topics \o arrives)[j] = arrives[j - Len(topics)]
    BY <1>2, Joined
  <2>2. \A x \in 1..enqueued : x <= enqueued
    OBVIOUS
  <2> QED BY <1>2, <1>6, <2>1, <2>2
<1> QED BY <1>5, <1>8, <1>9

LEMMA SendOkHolds ==
  ASSUME BufferInv, B!SendOk
  PROVE  BufferInv'
<1>1. PICK G : G = B!InQueue(inFlight)
  OBVIOUS
<1>2. PICK Q : Q = B!InQueue(queue)
  OBVIOUS
<1>3. /\ B!TypeOK /\ queue \in Seq(B!Messages) /\ Len(queue) <= BufferCapacity
      /\ inFlight \in Seq(Nat) /\ GoesUp(inFlight) /\ GoesUp(queue)
      /\ B!InQueue(B!Pending) = G \cup Q /\ enqueued \in Nat
      /\ acked \cup dropped \cup G \cup Q = 1..enqueued
      /\ acked \cap dropped = {} /\ (acked \cup dropped) \cap (G \cup Q) = {}
      /\ \A x \in G, y \in Q : x < y
  <2>1. B!TypeOK /\ queue \in Seq(B!Messages) /\ Len(queue) <= BufferCapacity /\ enqueued \in Nat
    BY BufferFacts, BufferTypes
  <2> QED BY <1>1, <1>2, <2>1, BufferFacts
<1>4. /\ topics' = topics \o inFlight /\ acked' = acked \cup G
      /\ enqueued' = enqueued /\ dropped' = dropped /\ closed' = closed /\ failures' = failures
      /\ B!TurnOf(queue)
  BY <1>1 DEF B!SendOk
<1>5. /\ queue' \in Seq(B!Messages) /\ Len(queue') <= BufferCapacity
      /\ inFlight' \in Seq(B!Messages) /\ Len(inFlight') <= BatchSize
      /\ inFlight' \o queue' = queue /\ pump' \in {"sending", "ending"} /\ PumpInv'
  BY <1>3, <1>4, TurnDoes
<1>6. G \subseteq Nat /\ Q \subseteq Nat /\ G \cap Q = {}
  <2>1. G \subseteq Nat /\ Q \subseteq Nat
    BY <1>3
  <2>2. \A x \in Nat : ~(x < x)
    OBVIOUS
  <2> QED BY <1>3, <2>1, <2>2
<1>7. /\ OrderIn(topics') /\ HasBeen(topics', Q) /\ topics' \in Seq(B!Messages)
      /\ \A j \in DOMAIN topics' : topics'[j] <= enqueued
  <2>1. \A m \in Q, x \in G : ~(m < x)
    <3>1. \A x, y \in Nat : x < y => ~(y < x)
      OBVIOUS
    <3> QED BY <1>3, <1>6, <3>1
  <2>2. /\ B!InQueue(inFlight) \subseteq B!InQueue(inFlight)
        /\ Q \in SUBSET B!InQueue(B!Pending)
        /\ \A m \in Q, x \in B!InQueue(inFlight) :
             m < x /\ B!TopicOf(m) = B!TopicOf(x) => m \in B!InQueue(inFlight)
    BY <1>1, <1>3, <2>1
  <2> QED BY <1>3, <1>4, <2>2, BrokerGets
<1>8. /\ acked' \cup dropped' \cup Q = 1..enqueued' /\ acked' \cap dropped' = {}
      /\ (acked' \cup dropped') \cap Q = {}
  BY <1>3, <1>4, <1>6
<1>9. B!TypeOK'
  <2>1. G \subseteq B!Messages
    <3>1. 1..enqueued \subseteq B!Messages
      BY <1>3, BufferTypes, BufferNumbers DEF B!Messages
    <3> QED BY <1>3, <3>1
  <2> QED BY <1>3, <1>4, <1>5, <1>7, <2>1 DEF B!TypeOK
<1> QED BY <1>2, <1>3, <1>4, <1>5, <1>6, <1>7, <1>8, <1>9, BufferHolds

(* Some of a failed batch: its messages of the topics that were reached.   *)
SomeOf(batch, places) == [n \in DOMAIN places |-> batch[places[n]]]

LEMMA SomeOfBatch ==
  ASSUME NEW batch \in Seq(Nat), GoesUp(batch), NEW arrived,
         NEW places \in B!PlacesOf(batch, arrived),
         NEW some, some = SomeOf(batch, places)
  PROVE  /\ some \in Seq(Nat) /\ GoesUp(some) /\ B!InQueue(some) \subseteq B!InQueue(batch)
         /\ \A x \in B!InQueue(some) : B!TopicOf(x) \in arrived
         /\ \A x \in B!InQueue(batch) : B!TopicOf(x) \in arrived => x \in B!InQueue(some)
<1>1. PICK l \in 0..Len(batch) : places \in [1..l -> DOMAIN batch]
  BY DEF B!PlacesOf
<1>2. /\ \A m, n \in DOMAIN places : m < n => places[m] < places[n]
      /\ B!InQueue(places) = {k \in DOMAIN batch : B!TopicOf(batch[k]) \in arrived}
  BY DEF B!PlacesOf
<1>3. l \in Nat /\ DOMAIN places = 1..l /\ DOMAIN some = 1..l
      /\ \A n \in 1..l : places[n] \in DOMAIN batch /\ some[n] = batch[places[n]]
  BY <1>1 DEF SomeOf
<1>4. \A k \in DOMAIN batch : batch[k] \in Nat
  OBVIOUS
<1>5. some \in Seq(Nat)
  <2>1. some \in [1..l -> Nat]
    BY <1>3, <1>4 DEF SomeOf
  <2> QED BY <1>3, <2>1
<1>6. GoesUp(some)
  BY <1>2, <1>3 DEF GoesUp
<1>7. B!InQueue(some) \subseteq B!InQueue(batch)
  BY <1>3 DEF B!InQueue
<1>8. ASSUME NEW x \in B!InQueue(some) PROVE B!TopicOf(x) \in arrived
  <2>1. PICK n \in 1..l : x = batch[places[n]]
    BY <1>3 DEF B!InQueue
  <2>2. places[n] \in B!InQueue(places)
    BY <1>3 DEF B!InQueue
  <2> QED BY <1>2, <2>1, <2>2
<1>9. ASSUME NEW x \in B!InQueue(batch), B!TopicOf(x) \in arrived PROVE x \in B!InQueue(some)
  <2>1. PICK k \in DOMAIN batch : x = batch[k]
    BY DEF B!InQueue
  <2>2. k \in B!InQueue(places)
    BY <1>2, <1>9, <2>1
  <2>3. PICK n \in 1..l : k = places[n]
    BY <1>3, <2>2 DEF B!InQueue
  <2> QED BY <1>3, <2>1, <2>3 DEF B!InQueue
<1> QED BY <1>5, <1>6, <1>7, <1>8, <1>9

(* A failed batch returns to the front, and the oldest go.                 *)
LEMMA SendFailsHolds ==
  ASSUME BufferInv, B!SendFails
  PROVE  BufferInv' /\ \A m \in dropped' \ dropped :
                         Len(queue') = BufferCapacity /\ \A k \in DOMAIN queue' : queue'[k] > m
<1>1. PICK q : q = inFlight \o queue
  OBVIOUS
<1>2. PICK O : O = B!TrimmedOff(q)
  OBVIOUS
<1>3. PICK R : R = B!InQueue(B!Trimmed(q))
  OBVIOUS
<1>4. PICK G : G = B!InQueue(inFlight)
  OBVIOUS
<1>5. PICK Q : Q = B!InQueue(queue)
  OBVIOUS
<1>6. /\ B!TypeOK /\ q = B!Pending /\ q \in Seq(B!Messages) /\ GoesUp(q)
      /\ inFlight \in Seq(Nat) /\ GoesUp(inFlight)
      /\ B!InQueue(q) = G \cup Q /\ enqueued \in Nat /\ 1..enqueued \subseteq B!Messages
      /\ acked \cup dropped \cup G \cup Q = 1..enqueued
      /\ acked \cap dropped = {} /\ (acked \cup dropped) \cap (G \cup Q) = {}
      /\ \A x \in G, y \in Q : x < y
  <2>1. B!TypeOK /\ enqueued \in Nat /\ 1..enqueued \subseteq B!Messages
    BY BufferFacts, BufferTypes, BufferNumbers DEF B!Messages
  <2>2. q = B!Pending
    BY <1>1, BufferFacts
  <2> QED BY <1>4, <1>5, <2>1, <2>2, BufferFacts
<1>7. PICK arrived \in SUBSET (0..Topics - 1) : \E places \in B!PlacesOf(inFlight, arrived) :
        topics' = topics \o [n \in DOMAIN places |-> inFlight[places[n]]]
  BY DEF B!SendFails
<1>8. PICK places \in B!PlacesOf(inFlight, arrived) :
        topics' = topics \o [n \in DOMAIN places |-> inFlight[places[n]]]
  BY <1>7
<1>9. PICK some : some = SomeOf(inFlight, places)
  OBVIOUS
<1>10. /\ some \in Seq(Nat) /\ GoesUp(some) /\ B!InQueue(some) \subseteq G
       /\ \A x \in B!InQueue(some) : B!TopicOf(x) \in arrived
       /\ \A x \in G : B!TopicOf(x) \in arrived => x \in B!InQueue(some)
  <2>1. inFlight \in Seq(Nat) /\ GoesUp(inFlight) /\ places \in B!PlacesOf(inFlight, arrived)
    BY <1>6
  <2>2. /\ some \in Seq(Nat) /\ GoesUp(some) /\ B!InQueue(some) \subseteq B!InQueue(inFlight)
        /\ \A x \in B!InQueue(some) : B!TopicOf(x) \in arrived
        /\ \A x \in B!InQueue(inFlight) : B!TopicOf(x) \in arrived => x \in B!InQueue(some)
    BY ONLY <1>9, <2>1, SomeOfBatch
  <2> QED BY <1>4, <2>2
<1>11. /\ enqueued' = enqueued /\ acked' = acked /\ closed' = closed /\ failures' = failures + 1
       /\ queue' = B!Trimmed(q) /\ dropped' = dropped \cup O /\ inFlight' = <<>>
       /\ pump' = "sleeping" /\ topics' = topics \o some /\ failures < MaxFailures
  BY <1>1, <1>2, <1>8, <1>9 DEF B!SendFails, B!Requeue, SomeOf
<1>12. /\ B!Trimmed(q) \in Seq(B!Messages) /\ Len(B!Trimmed(q)) <= BufferCapacity
       /\ GoesUp(B!Trimmed(q)) /\ G \cup Q = O \cup R
       /\ \A x \in O, y \in R : x < y
       /\ O # {} => Len(B!Trimmed(q)) = BufferCapacity
  BY <1>2, <1>3, <1>6, TrimDoes
<1>13. inFlight' \o queue' = B!Trimmed(q)
  BY <1>11, <1>12, ConcatEmptySeq
<1>14. G \cup Q \subseteq Nat /\ O \subseteq B!Messages /\ O \cap R = {}
  <2>1. G \cup Q \subseteq Nat /\ G \cup Q \subseteq B!Messages
    BY <1>6
  <2>2. \A x \in Nat : ~(x < x)
    OBVIOUS
  <2> QED BY <1>12, <2>1, <2>2
<1>15. /\ OrderIn(topics') /\ HasBeen(topics', R) /\ topics' \in Seq(B!Messages)
       /\ \A j \in DOMAIN topics' : topics'[j] <= enqueued
  <2>1. ASSUME NEW m \in R, NEW x \in B!InQueue(some), m < x, B!TopicOf(m) = B!TopicOf(x)
        PROVE  m \in B!InQueue(some)
    <3>1. \A y, z \in Nat : y < z => ~(z < y)
      OBVIOUS
    <3>2. m \in G \cup Q /\ x \in G
      BY <1>10, <1>12
    <3>3. m \in G
      BY <1>6, <1>14, <2>1, <3>1, <3>2
    <3> QED BY <1>10, <2>1, <3>3
  <2>2. /\ B!InQueue(some) \subseteq B!InQueue(inFlight)
        /\ R \in SUBSET B!InQueue(B!Pending)
    BY <1>4, <1>6, <1>10, <1>12
  <2> QED BY <1>10, <1>11, <2>1, <2>2, BrokerGets
<1>16. /\ acked' \cup dropped' \cup R = 1..enqueued' /\ acked' \cap dropped' = {}
       /\ (acked' \cup dropped') \cap R = {}
  BY <1>6, <1>11, <1>12, <1>14
<1>17. PumpInv'
  BY <1>11 DEF PumpInv
<1>18. B!TypeOK'
  <2>1. inFlight' \in Seq(B!Messages) /\ Len(inFlight') <= BatchSize
    BY <1>11, BufferNumbers
  <2>2. failures' \in 0..MaxFailures
    BY <1>6, <1>11, BufferNumbers DEF B!TypeOK
  <2> QED BY <1>6, <1>11, <1>12, <1>14, <1>15, <2>1, <2>2 DEF B!TypeOK
<1>19. BufferInv'
  <2>1. B!InQueue(inFlight' \o queue') = R /\ R \in SUBSET Nat /\ GoesUp(inFlight' \o queue')
    BY <1>3, <1>12, <1>13, <1>14
  <2> QED BY <1>11, <1>15, <1>16, <1>17, <1>18, <2>1, BufferHolds
<1>20. ASSUME NEW m \in dropped' \ dropped
       PROVE  Len(queue') = BufferCapacity /\ \A k \in DOMAIN queue' : queue'[k] > m
  <2>1. m \in O /\ m \in Nat
    BY <1>11, <1>12, <1>14, <1>20
  <2>2. \A k \in DOMAIN queue' : queue'[k] \in R /\ queue'[k] \in Nat
    <3>1. \A k \in DOMAIN queue' : queue'[k] \in R
      BY <1>3, <1>11 DEF B!InQueue
    <3> QED BY <1>12, <1>14, <3>1
  <2> QED BY <1>11, <1>12, <2>1, <2>2
<1> QED BY <1>19, <1>20

(* The turns that put the same messages on both sides, and the others.     *)
LEMMA SameMessages ==
  ASSUME BufferInv, inFlight' \o queue' = inFlight \o queue, PumpInv', B!TypeOK',
         enqueued' = enqueued, dropped' = dropped, acked' = acked, topics' = topics
  PROVE  BufferInv'
<1>1. /\ B!InQueue(inFlight' \o queue') = B!InQueue(B!Pending) /\ GoesUp(inFlight' \o queue')
      /\ enqueued \in Nat
  BY BufferFacts, BufferTypes
<1>2. B!InQueue(B!Pending) \in SUBSET Nat
  BY <1>1, BufferFacts
<1> QED BY <1>1, <1>2, BufferFacts, BufferHolds

LEMMA OtherTurns ==
  ASSUME BufferInv, B!Wake \/ B!PumpEnds \/ B!Close \/ UNCHANGED B!vars
  PROVE  BufferInv' /\ dropped' = dropped
<1>1. B!TypeOK /\ PumpInv /\ queue \in Seq(B!Messages) /\ Len(queue) <= BufferCapacity
      /\ inFlight \in Seq(B!Messages) /\ Len(inFlight) <= BatchSize
  BY BufferFacts, BufferTypes
<1>2. ASSUME B!TurnOf(queue), pump # "sending", closed' = closed, enqueued' = enqueued,
             dropped' = dropped, acked' = acked, topics' = topics, failures' = failures
      PROVE  BufferInv'
  <2>1. /\ queue' \in Seq(B!Messages) /\ Len(queue') <= BufferCapacity
        /\ inFlight' \in Seq(B!Messages) /\ Len(inFlight') <= BatchSize
        /\ inFlight' \o queue' = queue /\ pump' \in {"sending", "ending"} /\ PumpInv'
    BY <1>1, <1>2, TurnDoes
  <2>2. inFlight = <<>>
    BY <1>1, <1>2 DEF PumpInv
  <2>3. inFlight' \o queue' = inFlight \o queue
    BY <1>1, <2>1, <2>2, ConcatEmptySeq
  <2>4. B!TypeOK'
    BY <1>1, <1>2, <2>1 DEF B!TypeOK
  <2> QED BY <1>2, <2>1, <2>3, <2>4, SameMessages
<1>3. CASE B!Wake
  BY <1>2, <1>3 DEF B!Wake
<1>4. CASE B!PumpEnds
  <2>1. CASE queue # <<>> /\ ~closed
    BY <1>2, <1>4, <2>1 DEF B!PumpEnds
  <2>2. CASE ~(queue # <<>> /\ ~closed)
    <3>1. /\ pump = "ending" /\ pump' = "idle" /\ queue' = queue /\ inFlight' = inFlight
          /\ enqueued' = enqueued /\ dropped' = dropped /\ acked' = acked /\ closed' = closed
          /\ topics' = topics /\ failures' = failures
      BY <1>4, <2>2 DEF B!PumpEnds
    <3>2. B!TypeOK'
      BY <1>1, <3>1 DEF B!TypeOK
    <3>3. PumpInv'
      BY <1>1, <2>2, <3>1 DEF PumpInv
    <3> QED BY <3>1, <3>2, <3>3, SameMessages
  <2> QED BY <2>1, <2>2
<1>5. CASE B!Close
  <2>1. /\ closed' = TRUE /\ enqueued' = enqueued /\ queue' = queue /\ inFlight' = inFlight
        /\ dropped' = dropped /\ acked' = acked /\ pump' = pump /\ topics' = topics
        /\ failures' = failures
    BY <1>5 DEF B!Close, B!buffer
  <2>2. B!TypeOK'
    BY <1>1, <2>1 DEF B!TypeOK
  <2>3. PumpInv'
    BY <1>1, <2>1 DEF PumpInv
  <2> QED BY <2>1, <2>2, <2>3, SameMessages
<1>6. CASE UNCHANGED B!vars
  <2>1. /\ closed' = closed /\ enqueued' = enqueued /\ queue' = queue /\ inFlight' = inFlight
        /\ dropped' = dropped /\ acked' = acked /\ pump' = pump /\ topics' = topics
        /\ failures' = failures
    BY <1>6 DEF B!vars, B!buffer
  <2>2. B!TypeOK'
    BY <1>1, <2>1 DEF B!TypeOK
  <2>3. PumpInv'
    BY <1>1, <2>1 DEF PumpInv
  <2> QED BY <2>1, <2>2, <2>3, SameMessages
<1> QED BY <1>3, <1>4, <1>5, <1>6

LEMMA BufferStarts == ASSUME B!Init PROVE BufferInv
<1>1. B!Pending = <<>> /\ topics = <<>> /\ B!InQueue(B!Pending) = {}
  BY DEF B!Init, B!Pending, B!InQueue
<1>2. B!TypeOK
  <2>1. /\ enqueued = 0 /\ queue = <<>> /\ inFlight = <<>> /\ dropped = {} /\ acked = {}
        /\ pump = "idle" /\ closed = FALSE /\ topics = <<>> /\ failures = 0
    BY DEF B!Init
  <2>2. <<>> \in Seq(B!Messages) /\ Len(<<>>) = 0
    OBVIOUS
  <2>3. 0 \in 0..MaxMessages /\ 0 \in 0..MaxFailures /\ 0 <= BufferCapacity /\ 0 <= BatchSize
    BY BufferNumbers
  <2> QED BY <2>1, <2>2, <2>3 DEF B!TypeOK
<1>3. B!EveryMessageAccounted
  <2>1. enqueued = 0 /\ acked = {} /\ dropped = {} /\ 1..0 = {}
    BY DEF B!Init
  <2> QED BY <1>1, <2>1 DEF B!EveryMessageAccounted
<1>4. B!TopicOrder
  BY <1>1 DEF B!TopicOrder
<1>5. PumpInv
  BY DEF B!Init, PumpInv
<1>6. BrokerInv
  BY <1>1 DEF BrokerInv, HasBeen
<1> QED BY <1>2, <1>3, <1>4, <1>5, <1>6 DEF BufferInv, B!Conserved

LEMMA StepBuffer ==
  ASSUME BufferInv, [B!Next]_B!vars
  PROVE  BufferInv' /\ \A m \in dropped' \ dropped :
                         Len(queue') = BufferCapacity /\ \A k \in DOMAIN queue' : queue'[k] > m
<1>1. CASE B!Enqueue
  BY <1>1, EnqueueHolds
<1>2. CASE B!SendOk
  <2>1. dropped' = dropped
    BY <1>2 DEF B!SendOk
  <2> QED BY <1>2, <2>1, SendOkHolds
<1>3. CASE B!SendFails
  BY <1>3, SendFailsHolds
<1>4. CASE B!Wake \/ B!PumpEnds \/ B!Close \/ UNCHANGED B!vars
  BY <1>4, OtherTurns
<1> QED BY <1>1, <1>2, <1>3, <1>4 DEF B!Next
-------------------------------------------------------------------------------
(* The limit of the login: a row stands for the moment its bucket is full*)
(* again, and that is the one its failures give unless a look older than   *)
(* the row has been written over it; then it is an earlier one.          *)
Moment(C, s) == IF s.tokens < C THEN s.refilledAt + (C - s.tokens) * RefillMs ELSE s.refilledAt

Early(C, s, full) == s.tokens < C => Moment(C, s) <= full
Exact(C, s, full) ==
  (s.tokens = C => full <= s.refilledAt) /\ (s.tokens < C => full = Moment(C, s))

Whole(b) ==
  IF bucket[b] = L!NoRow THEN fullAt[b] = 0 /\ b \notin torn
  ELSE /\ Early(L!CapacityOf(b), bucket[b], fullAt[b])
       /\ b \notin torn => Exact(L!CapacityOf(b), bucket[b], fullAt[b])

(* The tokens an attempt counts on: those of its clock, if it has read it. *)
LeftAt(s, C, t) == L!TakeToken(s, C, t, 0).row.tokens
Hour(a) == IF attempt[a].call.tx = "none" THEN now ELSE attempt[a].call.clock
Ready(a, k) ==
  LeftAt(bucket[attempt[a].buckets[k]], L!CapacityOf(attempt[a].buckets[k]), Hour(a)) > 0

Given(a) == DOMAIN attempt[a].buckets

TokenRows == [tokens : Int, refilledAt : Nat]
Calls == [tx : {"none", "begun", "looked"}, clock : Nat, saw : TokenRows]
Tries == [buckets : Seq(L!Buckets), next : Nat, wrong : BOOLEAN, charged : SUBSET L!Buckets,
          at : {"none", "asking", "trying", "charging", "in", "tooMany", "unauthorized",
                "unavailable"}, call : Calls]

(* What an attempt alone keeps to: its buckets, its place among them, the  *)
(* clock and the row of its transaction.                                 *)
Sane(tried, time) ==
  /\ \A j, k \in DOMAIN tried.buckets : tried.buckets[j] = tried.buckets[k] => j = k
  /\ tried.at \in {"asking", "trying", "charging"} => tried.next \in DOMAIN tried.buckets
  /\ tried.at = "trying" => tried.next = 1
  /\ tried.at \in {"none", "asking", "trying"} => tried.charged = {}
  /\ tried.call.tx # "none" => tried.at \in {"asking", "charging"} /\ tried.call.clock <= time

Seen(a) ==
  attempt[a].call.tx = "looked" /\ attempt[a].call.saw # L!NoRow
    => attempt[a].call.saw = bucket[L!Goes(a)]

LoneInv(a) ==
  /\ L!Open(a) => /\ \A other \in L!Attempts : other # a => ~L!Open(other)
                  /\ \A b \in L!Buckets : bucket[b].refilledAt <= Hour(a)
  /\ attempt[a].call.tx = "looked" => attempt[a].call.saw = bucket[L!Goes(a)]
  /\ attempt[a].at = "asking" => \A k \in 1..attempt[a].next - 1 : Ready(a, k)
  /\ attempt[a].at = "trying" => \A k \in Given(a) : Ready(a, k)
  /\ attempt[a].at = "charging" =>
       /\ \A k \in Given(a) : k >= attempt[a].next => Ready(a, k)
       /\ \A k \in 1..attempt[a].next - 1 : attempt[a].buckets[k] \in attempt[a].charged

Paying(a) ==
  /\ attempt[a].at = "unauthorized" =>
       \A b \in L!Buckets : L!Uses(a, b) => b \in attempt[a].charged
  /\ attempt[a].at = "tooMany" => attempt[a].charged = {}

Refused(a) ==
  attempt[a].at = "tooMany" =>
    \E b \in L!Buckets : L!Uses(a, b) /\ \E other \in L!Attempts : b \in attempt[other].charged

LimitInv ==
  /\ L!TypeOK
  /\ bucket \in [L!Buckets -> TokenRows] /\ fullAt \in [L!Buckets -> Nat]
  /\ \A b \in L!Buckets : Whole(b)
  /\ attempt \in [L!Attempts -> Tries]
  /\ \A a \in L!Attempts : Sane(attempt[a], now) /\ Seen(a) /\ Refused(a)
  /\ \A a, other \in L!Attempts, b \in L!Buckets : L!Locks(a, b) /\ L!Locks(other, b) => a = other
  /\ \A a \in alone : LoneInv(a) /\ Paying(a)
  /\ \A b \in L!Buckets : fullAt[b] > 0 => \E a \in L!Attempts : b \in attempt[a].charged
  /\ \A b \in torn : \E a \in L!Attempts \ alone : L!Uses(a, b) /\ attempt[a].at # "none"

LEMMA LimitNumbers ==
  /\ RefillMs \in Nat \ {0} /\ EmailCapacity \in Nat \ {0} /\ AddressCapacity \in Nat \ {0}
  /\ MaxAttempts \in Nat /\ MaxTime \in Nat /\ Address \notin Emails
  /\ \A b \in L!Buckets : L!CapacityOf(b) \in Nat \ {0}
BY EndsAssumption DEF EndsAssumption, L!CapacityOf, L!Buckets

(* Division with a divisor of any size.                                    *)
LEMMA Division ==
  ASSUME NEW a \in Nat, NEW R \in Nat \ {0}
  PROVE  a \div R \in Nat /\ \E r \in 0..R - 1 : a = (a \div R) * R + r
<1>1. a \div R \in Int /\ a % R \in 0..R - 1 /\ a = R * (a \div R) + (a % R)
  OBVIOUS
<1>2. a \div R >= 0
  OBVIOUS
<1>3. R * (a \div R) = (a \div R) * R
  BY <1>1
<1> QED BY <1>1, <1>2, <1>3

LEMMA Times ==
  ASSUME NEW x \in Int, NEW R \in Nat \ {0}
  PROVE  x * R \in Int /\ (x >= 1 => x * R >= R) /\ (x <= 0 => x * R <= 0)
<1>1. x * R \in Int
  OBVIOUS
<1>2. ASSUME x >= 1 PROVE x * R >= R
  <2>1. (x - 1) * R >= 0
    BY <1>2
  <2>2. (x - 1) * R = x * R - R
    OBVIOUS
  <2> QED BY <1>1, <2>1, <2>2
<1>3. ASSUME x <= 0 PROVE x * R <= 0
  BY <1>3
<1> QED BY <1>1, <1>2, <1>3

LEMMA DivisionIs ==
  ASSUME NEW R \in Nat \ {0}, NEW q \in Nat, NEW r \in 0..R - 1
  PROVE  (q * R + r) \div R = q
<1>1. PICK a \in Nat : a = q * R + r
  BY Times
<1>2. PICK s \in 0..R - 1 : a = (a \div R) * R + s
  BY Division
<1>3. PICK d \in Nat : d = a \div R
  BY Division
<1>4. q * R + r = d * R + s
  BY <1>1, <1>2, <1>3
<1>5. (q - d) * R = s - r /\ (d - q) * R = r - s
  BY <1>4
<1>6. ~(q - d >= 1) /\ ~(d - q >= 1)
  BY <1>5, Times
<1> QED BY <1>1, <1>3, <1>6

LEMMA DivisionGrows ==
  ASSUME NEW R \in Nat \ {0}, NEW a \in Nat, NEW c \in Nat, a <= c
  PROVE  a \div R <= c \div R
<1>1. PICK r \in 0..R - 1 : a = (a \div R) * R + r
  BY Division
<1>2. PICK s \in 0..R - 1 : c = (c \div R) * R + s
  BY Division
<1>3. PICK d \in Nat : d = a \div R
  BY Division
<1>4. PICK e \in Nat : e = c \div R
  BY Division
<1>5. (d - e) * R <= s - r
  <2>1. d * R + r <= e * R + s
    BY <1>1, <1>2, <1>3, <1>4
  <2>2. (d - e) * R = d * R - e * R /\ d * R \in Int /\ e * R \in Int
    OBVIOUS
  <2> QED BY <2>1, <2>2
<1>6. ~(d - e >= 1)
  BY <1>5, Times
<1> QED BY <1>3, <1>4, <1>6

(* What the time gives back of C tokens, of which t were there at ref.     *)
Stands(C, R, t, ref, full) ==
  (t = C => full <= ref) /\ (t < C => full = ref + (C - t) * R)
Refilled(C, R, t, n, ref, full, g) ==
  /\ g \in Nat /\ ref + g * R \in 0..n
  /\ t + g >= C => full <= n
  /\ t + g < C => /\ full = ref + g * R + (C - t - g) * R
                  /\ n < full /\ (full - n + R - 1) \div R = C - t - g
                  /\ (n - (ref + g * R)) \div R = 0

LEMMA Refill ==
  ASSUME NEW C \in Nat \ {0}, NEW R \in Nat \ {0}, NEW t \in 0..C, NEW n \in Nat, NEW ref \in 0..n,
         NEW full \in Nat, Stands(C, R, t, ref, full), NEW g, g = (n - ref) \div R
  PROVE  Refilled(C, R, t, n, ref, full, g)
<1>1. g \in Nat /\ \E r \in 0..R - 1 : n - ref = g * R + r
  <2>1. PICK a \in Nat : a = n - ref
    OBVIOUS
  <2> QED BY <2>1, Division
<1>2. PICK r \in 0..R - 1 : n - ref = g * R + r
  BY <1>1
<1>3. PICK p \in Nat : p = g * R
  BY <1>1, Times
<1>4. ref + p \in 0..n /\ n - (ref + p) = r /\ n - ref = p + r
  BY <1>2, <1>3
<1>5. ASSUME t + g >= C PROVE full <= n
  <2>1. CASE t = C
    BY <2>1 DEF Stands
  <2>2. CASE t < C
    <3>1. (C - t - g) * R <= 0
      BY <1>1, <1>5, Times
    <3>2. (C - t - g) * R = (C - t) * R - g * R
      <4>1. PICK w \in Int : w = C - t
        OBVIOUS
      <4>2. (w - g) * R = w * R - g * R
        BY <1>1
      <4> QED BY <4>1, <4>2
    <3>3. (C - t) * R \in Int
      OBVIOUS
    <3> QED BY <1>3, <1>4, <2>2, <3>1, <3>2, <3>3 DEF Stands
  <2> QED BY <2>1, <2>2
<1>6. ASSUME t + g < C
      PROVE  /\ full = ref + g * R + (C - t - g) * R
             /\ n < full /\ (full - n + R - 1) \div R = C - t - g
             /\ (n - (ref + g * R)) \div R = 0
  <2>1. PICK x \in Nat : x = C - t - g /\ x >= 1
    BY <1>1, <1>6
  <2>2. (C - t) * R = g * R + x * R
    <3>1. C - t = g + x
      BY <1>1, <2>1
    <3>2. (g + x) * R = g * R + x * R
      BY <1>1
    <3> QED BY <3>1, <3>2
  <2>3. PICK y \in Nat : y = x * R /\ y >= R
    BY <2>1, Times
  <2>4. t < C
    BY <1>1, <1>6
  <2>5. full = ref + p + y
    BY <1>3, <2>2, <2>3, <2>4 DEF Stands
  <2>6. full = ref + g * R + (C - t - g) * R
    BY <1>3, <2>1, <2>3, <2>5
  <2>7. n < full
    BY <1>4, <2>3, <2>5
  <2>8. full - n + R - 1 = x * R + (R - 1 - r) /\ R - 1 - r \in 0..R - 1
    BY <1>4, <2>3, <2>5
  <2>9. (full - n + R - 1) \div R = x
    <3>1. PICK s \in 0..R - 1 : s = R - 1 - r
      BY <2>8
    <3>2. (x * R + s) \div R = x
      BY DivisionIs
    <3> QED BY <2>8, <3>1, <3>2
  <2>10. (n - (ref + g * R)) \div R = 0
    <3>1. (0 * R + r) \div R = 0
      BY DivisionIs
    <3>2. n - (ref + g * R) = 0 * R + r
      BY <1>3, <1>4
    <3> QED BY <3>1, <3>2
  <2> QED BY <2>1, <2>6, <2>7, <2>9, <2>10
<1> QED BY <1>1, <1>3, <1>4, <1>5, <1>6 DEF Refilled

(* What takeToken makes of a row, by a clock that may be behind it.      *)
Tokens(C, s, t, cost, d, left) ==
  /\ left \in 0..C /\ d.allowed = (left > 0)
  /\ d.row \in TokenRows /\ d.row.tokens = L!Most(0, left - cost)
  /\ d.row.refilledAt <= t \/ d.row.refilledAt = s.refilledAt
  /\ s = L!NoRow => left = C
  /\ s # L!NoRow => left >= s.tokens
  /\ left = C => d.row.refilledAt = t
  /\ left = C /\ s # L!NoRow /\ s.refilledAt <= t => Moment(C, s) <= t
  /\ left < C => /\ s.tokens < C /\ Moment(C, s) > t
                 /\ Moment(C, d.row) = Moment(C, s)
                      + (IF cost = 1 /\ left > 0 THEN RefillMs ELSE 0)
  /\ s # L!NoRow /\ s.refilledAt <= t =>
       left = C - (L!Most(0, Moment(C, s) - t) + RefillMs - 1) \div RefillMs

LEMMA Taken ==
  ASSUME NEW C \in Nat \ {0}, NEW s \in TokenRows, s = L!NoRow \/ s.tokens \in 0..C,
         NEW t \in Nat, NEW cost \in {0, 1}, NEW d, d = L!TakeToken(s, C, t, cost),
         NEW left, left = LeftAt(s, C, t)
  PROVE  Tokens(C, s, t, cost, d, left)
<1>0. PICK R \in Nat \ {0} : R = RefillMs
  BY LimitNumbers
<1>1. PICK have \in 0..C : have = IF s = L!NoRow THEN C ELSE s.tokens
  OBVIOUS
<1>2. PICK ref \in Nat : ref = IF s = L!NoRow THEN t ELSE s.refilledAt
  BY DEF TokenRows
<1>3. PICK m \in Nat : m = IF have < C THEN ref + (C - have) * R ELSE ref
  <2>1. PICK x \in Nat : x = C - have
    OBVIOUS
  <2>2. x * R \in Nat
    BY Times
  <2> QED BY <2>1, <2>2
<1>4. s # L!NoRow => Moment(C, s) = m
  BY <1>0, <1>1, <1>2, <1>3 DEF Moment
<1>5. PICK g : g = L!Most(0, t - ref) \div R
  OBVIOUS
<1>6. /\ g \in Nat /\ g * R \in Nat
      /\ ref + g * R <= t \/ g = 0
      /\ have + g < C => m = ref + g * R + (C - have - g) * R /\ m > t
      /\ have + g >= C /\ ref <= t => m <= t
      /\ have + g < C /\ ref <= t => (m - t + R - 1) \div R = C - have - g
  <2>1. CASE ref <= t
    <3>1. Stands(C, R, have, ref, m)
      BY <1>3 DEF Stands
    <3>2. g = (t - ref) \div R
      BY <1>5, <2>1 DEF L!Most
    <3>3. Refilled(C, R, have, t, ref, m, g)
      <4>1. ref \in 0..t
        BY <2>1
      <4> QED BY <3>1, <3>2, <4>1, Refill
    <3>4. g * R \in Nat
      BY <3>3, Times DEF Refilled
    <3> QED BY <2>1, <3>3, <3>4 DEF Refilled
  <2>2. CASE ref > t
    <3>1. L!Most(0, t - ref) = 0
      BY <2>2 DEF L!Most
    <3>2. (0 * R + 0) \div R = 0
      BY DivisionIs
    <3>3. g = 0 /\ g * R = 0
      BY <1>5, <3>1, <3>2
    <3>4. have < C => (C - have - g) * R >= R /\ m = ref + (C - have) * R
      <4>1. have < C => C - have - g >= 1
        BY <3>3
      <4> QED BY <1>3, <3>3, <4>1, Times
    <3>5. C - have - g = C - have
      BY <3>3
    <3> QED BY <2>2, <3>3, <3>4, <3>5
  <2> QED BY <2>1, <2>2
<1>7. PICK p \in Nat : p = g * R
  BY <1>6
<1>8. PICK avail \in 0..C : avail = IF have + g < C THEN have + g ELSE C
  BY <1>6
<1>9. ASSUME NEW c \in {0, 1}
      PROVE  L!TakeToken(s, C, t, c) =
               [allowed |-> avail > 0,
                row |-> [tokens |-> L!Most(0, avail - c),
                         refilledAt |-> IF have + g < C THEN ref + p ELSE t]]
  <2>1. L!Least(C, have + g) = avail
    BY <1>6, <1>8 DEF L!Least
  <2>2. (avail >= C) = ~(have + g < C)
    BY <1>6, <1>8
  <2>3. CASE s = L!NoRow
    BY <1>0, <1>1, <1>2, <1>5, <1>7, <2>1, <2>2, <2>3 DEF L!TakeToken
  <2>4. CASE s # L!NoRow
    BY <1>0, <1>1, <1>2, <1>5, <1>7, <2>1, <2>2, <2>4 DEF L!TakeToken
  <2> QED BY <2>3, <2>4
<1>10. left = avail
  <2>1. L!TakeToken(s, C, t, 0).row.tokens = L!Most(0, avail - 0)
    BY <1>9
  <2>2. L!Most(0, avail - 0) = avail
    BY DEF L!Most
  <2> QED BY <2>1, <2>2 DEF LeftAt
<1>11. PICK tokens \in 0..C : tokens = L!Most(0, avail - cost)
  <2>1. L!Most(0, avail - cost) = IF 0 > avail - cost THEN 0 ELSE avail - cost
    BY DEF L!Most
  <2>2. cost = 0 \/ cost = 1
    OBVIOUS
  <2>3. L!Most(0, avail - cost) \in 0..C
    BY <2>1, <2>2
  <2> QED BY <2>3
<1>12. PICK at \in Nat : at = IF have + g < C THEN ref + p ELSE t
  OBVIOUS
<1>13. d.allowed = (avail > 0) /\ d.row = [tokens |-> tokens, refilledAt |-> at]
  BY <1>9, <1>11, <1>12
<1>14. d.row \in TokenRows /\ d.row.tokens = tokens /\ d.row.refilledAt = at
  BY <1>13 DEF TokenRows
<1>15. at <= t \/ at = s.refilledAt
  <2>1. CASE have + g < C
    <3>1. s # L!NoRow
      BY <1>1, <1>6, <2>1
    <3>2. ref = s.refilledAt
      BY <1>2, <3>1
    <3>3. p = 0 => at = ref
      BY <1>12, <2>1
    <3>4. g = 0 => p = 0
      BY <1>7
    <3> QED BY <1>6, <1>7, <1>12, <2>1, <3>2, <3>3, <3>4
  <2> QED BY <1>12, <2>1
<1>16. s = L!NoRow => avail = C
  BY <1>1, <1>6, <1>8
<1>17. s # L!NoRow => avail >= s.tokens
  BY <1>1, <1>6, <1>8
<1>18. avail = C => at = t
  BY <1>6, <1>8, <1>12
<1>19. avail = C /\ s # L!NoRow /\ s.refilledAt <= t => Moment(C, s) <= t
  BY <1>2, <1>4, <1>6, <1>8
<1>20. ASSUME avail < C
       PROVE  /\ s.tokens < C /\ Moment(C, s) > t
              /\ Moment(C, d.row) = Moment(C, s) + (IF cost = 1 /\ avail > 0 THEN R ELSE 0)
  <2>1. have + g < C /\ s # L!NoRow
    BY <1>8, <1>16, <1>20
  <2>2. s.tokens < C /\ Moment(C, s) = m /\ m > t
    BY <1>1, <1>4, <1>6, <2>1
  <2>3. PICK x \in Nat : x = C - have - g
    BY <1>6, <2>1
  <2>4. PICK y \in Nat : y = x * R /\ m = ref + p + y /\ at = ref + p
    BY <1>6, <1>7, <1>12, <2>1, <2>3, Times
  <2>5. Moment(C, d.row) = at + (C - tokens) * R
    BY <1>0, <1>11, <1>14, <1>20 DEF Moment, L!Most
  <2>6. CASE cost = 1 /\ avail > 0
    <3>1. C - tokens = x + 1
      BY <1>6, <1>8, <1>11, <2>1, <2>3, <2>6 DEF L!Most
    <3>2. (x + 1) * R = x * R + R
      OBVIOUS
    <3> QED BY <2>2, <2>4, <2>5, <2>6, <3>1, <3>2
  <2>7. CASE ~(cost = 1 /\ avail > 0)
    <3>1. C - tokens = x
      BY <1>6, <1>8, <1>11, <2>1, <2>3, <2>7 DEF L!Most
    <3> QED BY <2>2, <2>4, <2>5, <2>7, <3>1
  <2> QED BY <2>2, <2>6, <2>7
<1>21. ASSUME s # L!NoRow, s.refilledAt <= t
       PROVE  avail = C - (L!Most(0, Moment(C, s) - t) + R - 1) \div R
  <2>0. ref <= t /\ Moment(C, s) = m
    BY <1>2, <1>4, <1>21
  <2>1. CASE have + g < C
    <3>1. L!Most(0, m - t) = m - t
      BY <1>6, <2>1 DEF L!Most
    <3> QED BY <1>6, <1>8, <2>0, <2>1, <3>1
  <2>2. CASE ~(have + g < C)
    <3>1. m <= t
      BY <1>6, <2>0, <2>2
    <3>2. L!Most(0, m - t) = 0
      BY <3>1 DEF L!Most
    <3>3. (0 * R + (R - 1)) \div R = 0
      BY DivisionIs
    <3>4. 0 + R - 1 = 0 * R + (R - 1)
      OBVIOUS
    <3> QED BY <1>8, <2>0, <2>2, <3>2, <3>3, <3>4
  <2> QED BY <2>1, <2>2
<1> QED BY <1>0, <1>10, <1>11, <1>13, <1>14, <1>15, <1>16, <1>17, <1>18, <1>19, <1>20, <1>21 DEF Tokens

(* Time only gives back.                                                   *)
LEMMA LeftGrows ==
  ASSUME NEW C \in Nat \ {0}, NEW s \in TokenRows, s = L!NoRow \/ s.tokens \in 0..C,
         NEW t \in Nat, NEW u \in Nat, t <= u, LeftAt(s, C, t) > 0
  PROVE  LeftAt(s, C, u) > 0
<1>0. PICK R \in Nat \ {0} : R = RefillMs
  BY LimitNumbers
<1>1. CASE s = L!NoRow
  <2>1. LeftAt(s, C, u) = C
    BY <1>1, Taken DEF Tokens
  <2> QED BY <2>1
<1>2. CASE s # L!NoRow
  <2>1. PICK have \in 0..C : have = s.tokens
    BY <1>2
  <2>2. PICK x \in Nat : x = L!Most(0, t - s.refilledAt)
    BY DEF L!Most, TokenRows
  <2>3. PICK y \in Nat : y = L!Most(0, u - s.refilledAt)
    BY DEF L!Most, TokenRows
  <2>4. x <= y
    BY <2>2, <2>3 DEF L!Most, TokenRows
  <2>5. PICK g \in Nat : g = x \div R
    BY Division
  <2>6. PICK h \in Nat : h = y \div R
    BY Division
  <2>7. g <= h
    BY <2>4, <2>5, <2>6, DivisionGrows
  <2>8. LeftAt(s, C, t) = L!Most(0, L!Least(C, have + g) - 0)
    BY <1>0, <1>2, <2>1, <2>2, <2>5 DEF LeftAt, L!TakeToken
  <2>9. LeftAt(s, C, u) = L!Most(0, L!Least(C, have + h) - 0)
    BY <1>0, <1>2, <2>1, <2>3, <2>6 DEF LeftAt, L!TakeToken
  <2> QED BY <2>7, <2>8, <2>9 DEF L!Least, L!Most
<1> QED BY <1>1, <1>2

(* The row a transaction leaves stands for the moment the charges give.  *)
LEMMA MomentMoves ==
  ASSUME NEW C \in Nat \ {0}, NEW s \in TokenRows, s = L!NoRow \/ s.tokens \in 0..C,
         NEW t \in Nat, NEW cost \in {0, 1}, NEW d, d = L!TakeToken(s, C, t, cost),
         NEW full \in Nat, NEW next,
         next = IF cost = 1 /\ d.allowed THEN L!Most(full, t) + RefillMs ELSE full,
         s # L!NoRow => Early(C, s, full)
  PROVE  /\ next \in Nat /\ d.row \in TokenRows /\ d.row.tokens \in 0..C /\ d.row # L!NoRow
         /\ Early(C, d.row, next)
         /\ (IF s = L!NoRow THEN full = 0 ELSE Exact(C, s, full) /\ s.refilledAt <= t)
              => Exact(C, d.row, next)
<1>0. PICK R \in Nat \ {0} : R = RefillMs
  BY LimitNumbers
<1>1. PICK left : left = LeftAt(s, C, t)
  OBVIOUS
<1>2. /\ left \in 0..C /\ d.allowed = (left > 0)
      /\ d.row \in TokenRows /\ d.row.tokens = L!Most(0, left - cost)
      /\ s = L!NoRow => left = C
      /\ s # L!NoRow => left >= s.tokens
      /\ left = C => d.row.refilledAt = t
      /\ left = C /\ s # L!NoRow /\ s.refilledAt <= t => Moment(C, s) <= t
      /\ left < C => /\ s.tokens < C /\ Moment(C, s) > t
                     /\ Moment(C, d.row) = Moment(C, s) + (IF cost = 1 /\ left > 0 THEN R ELSE 0)
  <2>1. Tokens(C, s, t, cost, d, left)
    BY <1>1, Taken
  <2> QED BY <1>0, <2>1 DEF Tokens
<1>3. PICK tokens \in 0..C : tokens = d.row.tokens /\ tokens = L!Most(0, left - cost)
  BY <1>2 DEF L!Most
<1>4. d.row # L!NoRow
  <2>1. L!NoRow.tokens = -1
    BY DEF L!NoRow
  <2>2. ASSUME d.row = L!NoRow PROVE d.row.tokens = -1
    BY <2>1, <2>2, Zenon
  <2>3. tokens # -1
    OBVIOUS
  <2> QED BY <1>3, <2>2, <2>3
<1>5. next \in Nat /\ next = IF cost = 1 /\ left > 0 THEN L!Most(full, t) + R ELSE full
  <2>1. next = IF cost = 1 /\ left > 0 THEN L!Most(full, t) + RefillMs ELSE full
    BY <1>2, Zenon
  <2> QED BY <1>0, <2>1 DEF L!Most
<1>6. CASE left < C
  <2>1. tokens < C /\ s # L!NoRow /\ s.tokens < C
    BY <1>2, <1>3, <1>6 DEF L!Most
  <2>2. Moment(C, s) \in Int /\ Moment(C, s) <= full
    <3>1. (C - s.tokens) * R \in Int /\ s.refilledAt \in Nat
      BY <2>1, Times DEF TokenRows
    <3> QED BY <1>0, <2>1, <3>1 DEF Moment, Early
  <2>3. Moment(C, d.row) <= next
    BY <1>0, <1>2, <1>5, <1>6, <2>2 DEF L!Most
  <2>4. ASSUME Exact(C, s, full) PROVE next = Moment(C, d.row)
    <3>1. full = Moment(C, s) /\ full > t
      BY <1>2, <1>6, <2>1, <2>4 DEF Exact
    <3> QED BY <1>0, <1>2, <1>5, <1>6, <3>1 DEF L!Most
  <2> QED BY <1>2, <1>3, <1>4, <1>5, <2>1, <2>3, <2>4 DEF Early, Exact
<1>7. CASE left = C
  <2>1. d.row.refilledAt = t
    BY <1>2, <1>7
  <2>2. cost = 1 => tokens = C - 1 /\ next = L!Most(full, t) + R
    BY <1>3, <1>5, <1>7 DEF L!Most
  <2>3. cost = 0 => tokens = C /\ next = full
    BY <1>3, <1>5, <1>7 DEF L!Most
  <2>4. cost = 1 => Moment(C, d.row) = t + R
    <3>1. 1 * R = R
      OBVIOUS
    <3> QED BY <1>0, <1>3, <2>1, <2>2, <3>1 DEF Moment
  <2>5. ASSUME IF s = L!NoRow THEN full = 0 ELSE Exact(C, s, full) /\ s.refilledAt <= t
        PROVE  full <= t
    <3>1. CASE s = L!NoRow
      BY <2>5, <3>1
    <3>2. CASE s # L!NoRow /\ s.tokens = C
      BY <2>5, <3>2 DEF Exact, TokenRows
    <3>3. CASE s # L!NoRow /\ s.tokens < C
      BY <1>2, <1>7, <2>5, <3>3 DEF Exact
    <3> QED BY <3>1, <3>2, <3>3
  <2> QED BY <1>2, <1>3, <1>4, <1>5, <2>1, <2>2, <2>3, <2>4, <2>5 DEF Early, Exact, L!Most
<1> QED BY <1>2, <1>6, <1>7

-------------------------------------------------------------------------------
LEMMA LimitStarts == ASSUME L!Init PROVE LimitInv
<1>1. L!NoRow \in TokenRows /\ L!NotBegun \in Tries
  <2>1. L!NoCall \in Calls
    BY DEF L!NoCall, Calls, L!NoRow, TokenRows
  <2>2. <<>> \in Seq(L!Buckets)
    OBVIOUS
  <2> QED BY <2>1, <2>2 DEF L!NotBegun, Tries, L!NoRow, TokenRows
<1>2. bucket \in [L!Buckets -> TokenRows] /\ attempt \in [L!Attempts -> Tries]
  BY <1>1 DEF L!Init
<1>3. fullAt \in [L!Buckets -> Nat] /\ \A b \in L!Buckets : bucket[b] = L!NoRow /\ fullAt[b] = 0
  BY DEF L!Init
<1>4. \A a \in L!Attempts : attempt[a] = L!NotBegun
  BY DEF L!Init
<1>5. \A a \in L!Attempts : attempt[a].at = "none" /\ attempt[a].call.tx = "none"
                            /\ attempt[a].buckets = <<>> /\ attempt[a].charged = {}
  BY <1>4 DEF L!NotBegun, L!NoCall
<1>6. torn = {} /\ alone = L!Attempts /\ now = 0
  BY DEF L!Init
<1>7. L!TypeOK
  BY <1>3, <1>6, LimitNumbers DEF L!TypeOK
<1>8. \A b \in L!Buckets : Whole(b)
  BY <1>3, <1>6 DEF Whole
<1>9. \A a \in L!Attempts : Sane(attempt[a], now) /\ Seen(a) /\ Refused(a) /\ LoneInv(a) /\ Paying(a)
  BY <1>5 DEF Sane, Seen, Refused, LoneInv, Paying, L!Open
<1>10. \A a \in L!Attempts, b \in L!Buckets : ~L!Locks(a, b)
  BY <1>5 DEF L!Locks
<1> QED BY <1>2, <1>3, <1>6, <1>7, <1>8, <1>9, <1>10 DEF LimitInv

(* What is known of an attempt.                                            *)
LEMMA LimitFacts ==
  ASSUME LimitInv, NEW a \in L!Attempts
  PROVE  /\ attempt[a] \in Tries /\ Sane(attempt[a], now) /\ now \in Nat
         /\ DOMAIN attempt[a].buckets = 1..Len(attempt[a].buckets)
         /\ Len(attempt[a].buckets) \in Nat
         /\ \A k \in DOMAIN attempt[a].buckets : attempt[a].buckets[k] \in L!Buckets
         /\ L!Open(a) => L!Goes(a) \in L!Buckets /\ L!Uses(a, L!Goes(a))
         /\ attempt[a].call.tx # "none" => L!Open(a)
<1>1. attempt[a] \in Tries /\ Sane(attempt[a], now) /\ now \in Nat
  BY LimitNumbers DEF LimitInv, L!TypeOK
<1>2. attempt[a].buckets \in Seq(L!Buckets)
  BY <1>1 DEF Tries
<1>3. L!Open(a) => attempt[a].next \in DOMAIN attempt[a].buckets
  BY <1>1 DEF Sane, L!Open
<1>4. attempt[a].call.tx # "none" => L!Open(a)
  BY <1>1 DEF Sane, L!Open
<1> QED BY <1>1, <1>2, <1>3, <1>4 DEF L!Goes, L!Uses

(* A step of one attempt that leaves the buckets alone.                    *)
LEMMA AttemptMoves ==
  ASSUME LimitInv, NEW a \in L!Attempts, NEW new \in Tries, Sane(new, now),
         attempt' = [attempt EXCEPT ![a] = new], alone' \subseteq alone,
         UNCHANGED <<bucket, fullAt, torn, now>>,
         new.at \notin {"none", "tooMany", "unauthorized"},
         attempt[a].charged \subseteq new.charged,
         attempt[a].at # "none" => new.buckets = attempt[a].buckets,
         new.call.tx = "looked" /\ new.call.saw # L!NoRow =>
           /\ new.call.saw = bucket[new.buckets[new.next]]
           /\ \A other \in L!Attempts \ {a} : ~L!Locks(other, new.buckets[new.next]),
         new.at \in {"asking", "trying", "charging"} =>
           \A other \in alone' : other # a => ~L!Open(other),
         a \in alone' => LoneInv(a)'
  PROVE  LimitInv'
<1>1. attempt'[a] = new /\ \A x \in L!Attempts : x # a => attempt'[x] = attempt[x]
  BY DEF LimitInv
<1>2. attempt' \in [L!Attempts -> Tries]
  BY DEF LimitInv
<1>3. L!TypeOK' /\ (bucket \in [L!Buckets -> TokenRows])' /\ (fullAt \in [L!Buckets -> Nat])'
  BY DEF LimitInv, L!TypeOK
<1>4. \A b \in L!Buckets : Whole(b)'
  BY DEF LimitInv, Whole
<1>5. ASSUME NEW x \in L!Attempts
      PROVE  (Sane(attempt[x], now) /\ Seen(x))'
  <2>1. CASE x = a
    BY <1>1, <2>1 DEF Seen, L!Goes, Sane
  <2>2. CASE x # a
    <3>1. Sane(attempt[x], now) /\ Seen(x)
      BY DEF LimitInv
    <3> QED BY <1>1, <2>2, <3>1 DEF Seen, L!Goes, Sane
  <2> QED BY <2>1, <2>2
<1>6. \A x \in L!Attempts : attempt[x].charged \subseteq attempt'[x].charged
  BY <1>1
<1>7. ASSUME NEW x \in L!Attempts PROVE Refused(x)'
  <2>1. CASE x = a
    BY <1>1, <2>1 DEF Refused
  <2>2. CASE x # a
    <3>1. Refused(x)
      BY DEF LimitInv
    <3> QED BY <1>1, <1>6, <2>2, <3>1 DEF Refused, L!Uses
  <2> QED BY <2>1, <2>2
<1>8. ASSUME NEW x \in L!Attempts, NEW y \in L!Attempts, NEW b \in L!Buckets,
             L!Locks(x, b)', L!Locks(y, b)', x # y
      PROVE  FALSE
  <2>1. CASE x = a
    <3>1. L!Locks(y, b) /\ b = new.buckets[new.next]
      BY <1>1, <1>8, <2>1 DEF L!Locks, L!Goes
    <3> QED BY <1>1, <1>8, <2>1, <3>1 DEF L!Locks
  <2>2. CASE y = a
    <3>1. L!Locks(x, b) /\ b = new.buckets[new.next]
      BY <1>1, <1>8, <2>2 DEF L!Locks, L!Goes
    <3> QED BY <1>1, <1>8, <2>2, <3>1 DEF L!Locks
  <2>3. CASE x # a /\ y # a
    <3>1. L!Locks(x, b) /\ L!Locks(y, b)
      BY <1>1, <1>8, <2>3 DEF L!Locks, L!Goes
    <3> QED BY <1>8, <3>1 DEF LimitInv
  <2> QED BY <2>1, <2>2, <2>3
<1>9. ASSUME NEW x \in L!Attempts, x \in alone' PROVE (LoneInv(x) /\ Paying(x))'
  <2>1. CASE x = a
    BY <1>1, <1>9, <2>1 DEF Paying
  <2>2. CASE x # a
    <3>1. LoneInv(x) /\ Paying(x) /\ (L!Open(x) <=> L!Open(x)')
      BY <1>1, <1>9, <2>2 DEF LimitInv, L!Open
    <3>2. Paying(x)'
      BY <1>1, <2>2, <3>1 DEF Paying, L!Uses
    <3>3. \A other \in L!Attempts : other # x /\ L!Open(x) => ~L!Open(other)'
      <4>1. L!Open(x) => ~L!Open(a)'
        BY <1>1, <1>9, <2>2 DEF L!Open
      <4>2. \A other \in L!Attempts : other # a => (L!Open(other) <=> L!Open(other)')
        BY <1>1 DEF L!Open
      <4> QED BY <3>1, <4>1, <4>2 DEF LoneInv
    <3>4. Hour(x)' = Hour(x)
      BY <1>1, <2>2 DEF Hour
    <3>5. \A k : Ready(x, k) <=> Ready(x, k)'
      BY <1>1, <2>2, <3>4 DEF Ready
    <3>6. attempt'[x] = attempt[x] /\ L!Goes(x)' = L!Goes(x) /\ Given(x)' = Given(x)
      BY <1>1, <2>2 DEF L!Goes, Given
    <3> QED BY <3>1, <3>2, <3>3, <3>4, <3>5, <3>6 DEF LoneInv
  <2> QED BY <2>1, <2>2
<1>10. \A b \in L!Buckets : fullAt'[b] > 0 => \E x \in L!Attempts : b \in attempt'[x].charged
  BY <1>6 DEF LimitInv
<1>11. ASSUME NEW b \in torn
       PROVE  \E x \in L!Attempts \ alone' : L!Uses(x, b)' /\ attempt'[x].at # "none"
  <2>1. PICK x \in L!Attempts \ alone : L!Uses(x, b) /\ attempt[x].at # "none"
    BY DEF LimitInv
  <2>2. L!Uses(x, b)' /\ attempt'[x].at # "none"
    BY <1>1, <2>1 DEF L!Uses
  <2> QED BY <2>1, <2>2
<1>12. alone' \subseteq L!Attempts
  BY DEF LimitInv, L!TypeOK
<1> QED BY <1>2, <1>3, <1>4, <1>5, <1>7, <1>8, <1>9, <1>10, <1>11, <1>12 DEF LimitInv

LEMMA BeginHolds ==
  ASSUME LimitInv, NEW a \in L!Attempts, NEW e \in Emails, NEW known \in BOOLEAN,
         NEW wrong \in BOOLEAN, L!Begin(a, e, known, wrong)
  PROVE  LimitInv'
<1>1. PICK new : new = [buckets |-> IF known THEN <<e, Address>> ELSE <<e>>,
                        at |-> "asking", next |-> 1, wrong |-> wrong, charged |-> {},
                        call |-> L!NoCall]
  OBVIOUS
<1>2. PICK given : given = IF known THEN <<e, Address>> ELSE <<e>>
  OBVIOUS
<1>3. /\ given \in Seq(L!Buckets) /\ 1 \in DOMAIN given
      /\ \A j, k \in DOMAIN given : given[j] = given[k] => j = k
  <2>1. e \in L!Buckets /\ Address \in L!Buckets /\ e # Address
    BY LimitNumbers DEF L!Buckets
  <2>2. CASE known
    <3>1. given = <<e, Address>> /\ Len(given) = 2 /\ DOMAIN given = 1..2
      BY <1>2, <2>2
    <3> QED BY <2>1, <3>1
  <2>3. CASE ~known
    <3>1. given = <<e>> /\ Len(given) = 1 /\ DOMAIN given = 1..1
      BY <1>2, <2>3
    <3> QED BY <2>1, <3>1
  <2> QED BY <2>2, <2>3
<1>4. L!NoCall \in Calls /\ L!NoCall.tx = "none"
  BY DEF L!NoCall, Calls, L!NoRow, TokenRows
<1>5. new.buckets = given /\ new.at = "asking" /\ new.next = 1 /\ new.charged = {} /\ new.call.tx = "none"
  BY <1>1, <1>2, <1>4
<1>6. new \in Tries
  BY <1>1, <1>2, <1>3, <1>4 DEF Tries
<1>7. Sane(new, now)
  BY <1>3, <1>5 DEF Sane
<1>8. attempt' = [attempt EXCEPT ![a] = new] /\ attempt[a].at = "none" /\ attempt[a].charged = {}
  BY <1>1, LimitFacts DEF L!Begin, Sane
<1>9. /\ alone' \subseteq alone
      /\ \A other \in alone' : other # a => ~L!Open(other)
      /\ a \in alone' => \A other \in L!Attempts : ~L!Open(other)
  BY DEF L!Begin, LimitInv, L!TypeOK
<1>10. UNCHANGED <<bucket, now, fullAt, torn>>
  BY DEF L!Begin
<1>11. ASSUME a \in alone' PROVE LoneInv(a)'
  <2>1. attempt'[a] = new /\ \A x \in L!Attempts : x # a => attempt'[x] = attempt[x]
    BY <1>8 DEF LimitInv
  <2>2. \A other \in L!Attempts : other # a => ~L!Open(other)'
    BY <1>9, <1>11, <2>1 DEF L!Open
  <2>3. Hour(a)' = now /\ \A b \in L!Buckets : bucket[b].refilledAt <= now
    <3>1. \A b \in L!Buckets : bucket[b].refilledAt <= now
      BY LimitNumbers DEF LimitInv, L!TypeOK, L!NoRow
    <3> QED BY <1>5, <1>10, <2>1, <3>1 DEF Hour
  <2>4. 1..new.next - 1 = {}
    BY <1>5
  <2> QED BY <1>5, <1>10, <2>1, <2>2, <2>3, <2>4 DEF LoneInv
<1> QED BY <1>5, <1>6, <1>7, <1>8, <1>9, <1>10, <1>11, AttemptMoves

LEMMA ConnectHolds ==
  ASSUME LimitInv, NEW a \in L!Attempts, L!Connect(a)
  PROVE  LimitInv'
<1>1. PICK call : call = [tx |-> "begun", clock |-> now, saw |-> L!NoRow]
  OBVIOUS
<1>2. PICK new : new = [attempt[a] EXCEPT !.call = call]
  OBVIOUS
<1>3. /\ attempt[a] \in Tries /\ Sane(attempt[a], now) /\ now \in Nat
      /\ attempt[a].at \in {"asking", "charging"} /\ attempt[a].call.tx = "none"
  BY LimitFacts DEF L!Connect
<1>4. call \in Calls /\ call.tx = "begun" /\ call.clock = now
  BY <1>1, <1>3 DEF Calls, TokenRows, L!NoRow
<1>5. /\ new \in Tries /\ new.call = call /\ new.at = attempt[a].at /\ new.next = attempt[a].next
      /\ new.buckets = attempt[a].buckets /\ new.charged = attempt[a].charged
  BY <1>2, <1>3, <1>4 DEF Tries
<1>6. Sane(new, now)
  BY <1>3, <1>4, <1>5 DEF Sane
<1>7. attempt' = [attempt EXCEPT ![a] = new] /\ UNCHANGED <<bucket, now, fullAt, torn, alone>>
  BY <1>1, <1>2 DEF L!Connect
<1>8. \A x \in alone : x # a => ~L!Open(x)
  BY <1>3 DEF LimitInv, LoneInv, L!Open, L!TypeOK
<1>9. ASSUME a \in alone' PROVE LoneInv(a)'
  <2>1. attempt'[a] = new /\ \A x \in L!Attempts : x # a => attempt'[x] = attempt[x]
    BY <1>7 DEF LimitInv
  <2>2. LoneInv(a)
    BY <1>7, <1>9 DEF LimitInv
  <2>3. Hour(a)' = Hour(a)
    BY <1>3, <1>4, <1>5, <2>1 DEF Hour
  <2>4. \A k : Ready(a, k) <=> Ready(a, k)'
    BY <1>5, <1>7, <2>1, <2>3 DEF Ready
  <2>5. Given(a)' = Given(a) /\ \A x \in L!Attempts : L!Open(x) <=> L!Open(x)'
    BY <1>5, <2>1 DEF Given, L!Open
  <2> QED BY <1>4, <1>5, <1>7, <2>1, <2>2, <2>3, <2>4, <2>5 DEF LoneInv
<1> QED BY <1>3, <1>4, <1>5, <1>6, <1>7, <1>8, <1>9, AttemptMoves

LEMMA LookHolds ==
  ASSUME LimitInv, NEW a \in L!Attempts, L!Look(a)
  PROVE  LimitInv'
<1>1. PICK call : call = [tx |-> "looked", clock |-> attempt[a].call.clock, saw |-> bucket[L!Goes(a)]]
  OBVIOUS
<1>2. PICK new : new = [attempt[a] EXCEPT !.call = call]
  OBVIOUS
<1>3. /\ attempt[a] \in Tries /\ Sane(attempt[a], now) /\ now \in Nat
      /\ attempt[a].call.tx = "begun" /\ attempt[a].at \in {"asking", "charging"}
      /\ L!Open(a) /\ L!Goes(a) \in L!Buckets
  BY LimitFacts DEF L!Look, Sane
<1>4. /\ call \in Calls /\ call.tx = "looked" /\ call.clock = attempt[a].call.clock
      /\ call.saw = bucket[L!Goes(a)]
  BY <1>1, <1>3 DEF Calls, Tries, LimitInv
<1>5. /\ new \in Tries /\ new.call = call /\ new.at = attempt[a].at /\ new.next = attempt[a].next
      /\ new.buckets = attempt[a].buckets /\ new.charged = attempt[a].charged
  BY <1>2, <1>3, <1>4 DEF Tries
<1>6. Sane(new, now)
  BY <1>3, <1>4, <1>5 DEF Sane
<1>7. attempt' = [attempt EXCEPT ![a] = new] /\ UNCHANGED <<bucket, now, fullAt, torn, alone>>
  BY <1>1, <1>2 DEF L!Look
<1>8. \A x \in alone : x # a => ~L!Open(x)
  BY <1>3 DEF LimitInv, LoneInv, L!Open, L!TypeOK
<1>9. new.buckets[new.next] = L!Goes(a) /\ \A other \in L!Attempts : ~L!Locks(other, L!Goes(a))
  BY <1>5 DEF L!Look, L!Free, L!Goes
<1>10. ASSUME a \in alone' PROVE LoneInv(a)'
  <2>1. attempt'[a] = new /\ \A x \in L!Attempts : x # a => attempt'[x] = attempt[x]
    BY <1>7 DEF LimitInv
  <2>2. LoneInv(a)
    BY <1>7, <1>10 DEF LimitInv
  <2>3. Hour(a)' = Hour(a) /\ L!Goes(a)' = L!Goes(a)
    BY <1>3, <1>4, <1>5, <2>1 DEF Hour, L!Goes
  <2>4. \A k : Ready(a, k) <=> Ready(a, k)'
    BY <1>5, <1>7, <2>1, <2>3 DEF Ready
  <2>5. Given(a)' = Given(a) /\ \A x \in L!Attempts : L!Open(x) <=> L!Open(x)'
    BY <1>5, <2>1 DEF Given, L!Open
  <2> QED BY <1>4, <1>5, <1>7, <2>1, <2>2, <2>3, <2>4, <2>5 DEF LoneInv
<1> QED BY <1>3, <1>4, <1>5, <1>6, <1>7, <1>8, <1>9, <1>10, AttemptMoves

LEMMA TryHolds ==
  ASSUME LimitInv, NEW a \in L!Attempts, L!Try(a)
  PROVE  LimitInv'
<1>1. PICK at : at = IF attempt[a].wrong THEN "charging" ELSE "in"
  OBVIOUS
<1>2. PICK new : new = [attempt[a] EXCEPT !.at = at]
  OBVIOUS
<1>3. /\ attempt[a] \in Tries /\ Sane(attempt[a], now) /\ now \in Nat /\ attempt[a].at = "trying"
      /\ attempt[a].call.tx = "none" /\ attempt[a].next = 1 /\ at \in {"charging", "in"}
  BY <1>1, LimitFacts DEF L!Try, Sane, Tries, Calls
<1>4. /\ new \in Tries /\ new.call = attempt[a].call /\ new.at = at /\ new.next = 1
      /\ new.buckets = attempt[a].buckets /\ new.charged = attempt[a].charged
  BY <1>2, <1>3 DEF Tries
<1>5. Sane(new, now)
  BY <1>3, <1>4 DEF Sane
<1>6. attempt' = [attempt EXCEPT ![a] = new] /\ UNCHANGED <<bucket, now, fullAt, torn, alone>>
  BY <1>1, <1>2 DEF L!Try
<1>7. \A x \in alone : x # a => ~L!Open(x)
  BY <1>3 DEF LimitInv, LoneInv, L!Open, L!TypeOK
<1>8. ASSUME a \in alone' PROVE LoneInv(a)'
  <2>1. attempt'[a] = new /\ \A x \in L!Attempts : x # a => attempt'[x] = attempt[x]
    BY <1>6 DEF LimitInv
  <2>2. LoneInv(a) /\ L!Open(a)
    BY <1>3, <1>6, <1>8 DEF LimitInv, L!Open
  <2>3. Hour(a)' = Hour(a)
    BY <1>4, <1>6, <2>1 DEF Hour
  <2>4. \A k \in Given(a) : Ready(a, k)'
    BY <1>3, <1>4, <1>6, <2>1, <2>2, <2>3 DEF Ready, LoneInv
  <2>5. Given(a)' = Given(a) /\ \A x \in L!Attempts : x # a => (L!Open(x) <=> L!Open(x)')
    BY <1>4, <2>1 DEF Given, L!Open
  <2>6. 1..new.next - 1 = {}
    BY <1>4
  <2> QED BY <1>3, <1>4, <1>6, <2>1, <2>2, <2>3, <2>4, <2>5, <2>6 DEF LoneInv
<1> QED BY <1>3, <1>4, <1>5, <1>6, <1>7, <1>8, AttemptMoves

LEMMA UnavailableHolds ==
  ASSUME LimitInv, NEW a \in L!Attempts, L!Unavailable(a)
  PROVE  LimitInv'
<1>1. PICK new : new = [attempt[a] EXCEPT !.at = "unavailable", !.call = L!NoCall]
  OBVIOUS
<1>2. attempt[a] \in Tries /\ Sane(attempt[a], now) /\ now \in Nat
  BY LimitFacts
<1>3. L!NoCall \in Calls /\ L!NoCall.tx = "none"
  BY DEF L!NoCall, Calls, L!NoRow, TokenRows
<1>4. /\ new \in Tries /\ new.call = L!NoCall /\ new.at = "unavailable" /\ new.next = attempt[a].next
      /\ new.buckets = attempt[a].buckets /\ new.charged = attempt[a].charged
  BY <1>1, <1>2, <1>3 DEF Tries
<1>5. Sane(new, now)
  BY <1>2, <1>3, <1>4 DEF Sane
<1>6. attempt' = [attempt EXCEPT ![a] = new] /\ UNCHANGED <<bucket, now, fullAt, torn>>
  BY <1>1 DEF L!Unavailable
<1>7. alone' \subseteq alone /\ a \notin alone'
  BY DEF L!Unavailable
<1> QED BY <1>2, <1>3, <1>4, <1>5, <1>6, <1>7, AttemptMoves

LEMMA TickHolds == ASSUME LimitInv, L!Tick PROVE LimitInv'
<1>1. /\ now' = now + 1 /\ now \in Nat /\ now' \in Nat /\ now' \in 0..MaxTime
      /\ UNCHANGED <<bucket, attempt, fullAt, torn, alone>>
  BY LimitNumbers DEF L!Tick, LimitInv, L!TypeOK
<1>2. L!TypeOK'
  BY <1>1, LimitNumbers DEF LimitInv, L!TypeOK, L!NoRow
<1>3. \A b \in L!Buckets : Whole(b)'
  BY <1>1 DEF LimitInv, Whole
<1>4. ASSUME NEW a \in L!Attempts PROVE (Sane(attempt[a], now) /\ Seen(a) /\ Refused(a))'
  <2>1. attempt[a].call.clock \in Nat
    BY DEF LimitInv, Tries, Calls
  <2> QED BY <1>1, <2>1 DEF LimitInv, Sane, Seen, L!Goes, Refused, L!Uses
<1>5. \A x, y \in L!Attempts, b \in L!Buckets : L!Locks(x, b)' /\ L!Locks(y, b)' => x = y
  BY <1>1 DEF LimitInv, L!Locks, L!Goes
<1>6. ASSUME NEW a \in L!Attempts, a \in alone PROVE (LoneInv(a) /\ Paying(a))'
  <2>1. LoneInv(a) /\ Paying(a)
    BY <1>6 DEF LimitInv
  <2>2. Hour(a) \in Nat /\ Hour(a)' \in Nat /\ Hour(a) <= Hour(a)'
    BY <1>1 DEF LimitInv, Tries, Calls, Hour
  <2>3. ASSUME NEW k \in Given(a), Ready(a, k) PROVE Ready(a, k)'
    <3>1. PICK b \in L!Buckets : b = attempt[a].buckets[k]
      BY LimitFacts DEF Given
    <3>2. bucket[b] \in TokenRows /\ (bucket[b] = L!NoRow \/ bucket[b].tokens \in 0..L!CapacityOf(b))
      BY DEF LimitInv, L!TypeOK
    <3>3. L!CapacityOf(b) \in Nat \ {0}
      BY LimitNumbers
    <3>4. LeftAt(bucket[b], L!CapacityOf(b), Hour(a)) > 0
      BY <2>3, <3>1 DEF Ready
    <3>5. LeftAt(bucket[b], L!CapacityOf(b), Hour(a)') > 0
      BY <2>2, <3>2, <3>3, <3>4, LeftGrows
    <3> QED BY <1>1, <3>1, <3>5 DEF Ready
  <2>4. \A b \in L!Buckets : bucket[b].refilledAt \in Nat
    BY DEF LimitInv, TokenRows
  <2>5. L!Open(a) => attempt[a].next \in Given(a)
    BY LimitFacts DEF Sane, L!Open, Given
  <2>6. L!Open(a) => 1..attempt[a].next - 1 \subseteq Given(a)
    BY <2>5, LimitFacts DEF Given
  <2>7. /\ L!Open(a)' = L!Open(a) /\ Given(a)' = Given(a) /\ L!Goes(a)' = L!Goes(a)
        /\ \A other \in L!Attempts : L!Open(other)' = L!Open(other)
    BY <1>1 DEF L!Open, Given, L!Goes
  <2>8. Paying(a)'
    BY <1>1, <2>1 DEF Paying, L!Uses
  <2>9. L!Open(a) => \A b \in L!Buckets : bucket'[b].refilledAt <= Hour(a)'
    BY <1>1, <2>1, <2>2, <2>4 DEF LoneInv
  <2>10. /\ attempt[a].at = "asking" => \A k \in 1..attempt[a].next - 1 : Ready(a, k)'
         /\ attempt[a].at = "trying" => \A k \in Given(a) : Ready(a, k)'
         /\ attempt[a].at = "charging" => \A k \in Given(a) : k >= attempt[a].next => Ready(a, k)'
    BY <2>1, <2>3, <2>6 DEF LoneInv, L!Open
  <2> QED BY <1>1, <2>1, <2>7, <2>8, <2>9, <2>10 DEF LoneInv
<1>7. /\ \A b \in L!Buckets : fullAt'[b] > 0 => \E a \in L!Attempts : b \in attempt'[a].charged
      /\ \A b \in torn : \E a \in L!Attempts \ alone : L!Uses(a, b)' /\ attempt'[a].at # "none"
  BY <1>1 DEF LimitInv, L!Uses
<1>8. alone \subseteq L!Attempts
  BY DEF LimitInv, L!TypeOK
<1> QED BY <1>1, <1>2, <1>3, <1>4, <1>5, <1>6, <1>7, <1>8 DEF LimitInv

(* The tokens an attempt finds in the row it has read, by its own clock. *)
Found(a) == LeftAt(attempt[a].call.saw, L!CapacityOf(L!Goes(a)), attempt[a].call.clock)

(* What a transaction that ends has read, and what it makes of it.         *)
Ending(a) ==
  LET tried == attempt[a]
      b == L!Goes(a)
      C == L!CapacityOf(b)
      wrote == L!Decision(a).row
  IN /\ tried.at \in {"asking", "charging"} /\ tried.next \in DOMAIN tried.buckets
     /\ L!Open(a) /\ b \in L!Buckets /\ L!Uses(a, b)
     /\ tried.call.clock \in Nat /\ tried.call.clock <= now /\ now \in Nat /\ C \in Nat \ {0}
     /\ tried.call.saw \in TokenRows /\ (tried.call.saw = L!NoRow \/ tried.call.saw = bucket[b])
     /\ (tried.call.saw = L!NoRow \/ tried.call.saw.tokens \in 0..C)
     /\ L!Decision(a).allowed = (Found(a) > 0) /\ Found(a) \in 0..C
     /\ wrote \in TokenRows /\ wrote # L!NoRow /\ wrote.tokens \in 0..C /\ wrote.refilledAt \in 0..now
     /\ tried.at = "asking" => wrote.tokens = Found(a)
     /\ fullAt'[b] \in Nat /\ Early(C, wrote, fullAt'[b])
     /\ (IF tried.call.saw = L!NoRow THEN fullAt[b] = 0
         ELSE Exact(C, tried.call.saw, fullAt[b]) /\ tried.call.saw.refilledAt <= tried.call.clock)
          => Exact(C, wrote, fullAt'[b])
     /\ ~(Found(a) > 0) => fullAt[b] > 0
     /\ L!Paid(a) <=> tried.at = "charging" /\ Found(a) > 0

LEMMA CommitEnds ==
  ASSUME LimitInv, NEW a \in L!Attempts, NEW at, L!Commit(a, at)
  PROVE  Ending(a)
<1>1. PICK b : b = L!Goes(a)
  OBVIOUS
<1>2. PICK C : C = L!CapacityOf(b)
  OBVIOUS
<1>3. PICK s : s = attempt[a].call.saw
  OBVIOUS
<1>4. PICK t : t = attempt[a].call.clock
  OBVIOUS
<1>5. PICK cost : cost = L!Cost(a)
  OBVIOUS
<1>6. PICK d : d = L!Decision(a)
  OBVIOUS
<1>7. PICK left : left = LeftAt(s, C, t)
  OBVIOUS
<1>8. /\ attempt[a].call.tx = "looked" /\ attempt[a] \in Tries /\ Sane(attempt[a], now) /\ now \in Nat
      /\ L!Open(a) /\ b \in L!Buckets /\ L!Uses(a, b)
  BY <1>1, LimitFacts DEF L!Commit
<1>9. /\ attempt[a].at \in {"asking", "charging"} /\ attempt[a].next \in DOMAIN attempt[a].buckets
      /\ t \in Nat /\ t <= now /\ s \in TokenRows /\ cost \in {0, 1}
      /\ cost = 1 <=> attempt[a].at = "charging"
  BY <1>3, <1>4, <1>5, <1>8 DEF Sane, Tries, Calls, L!Cost
<1>10. C \in Nat \ {0}
  BY <1>2, <1>8, LimitNumbers
<1>11. s = L!NoRow \/ s = bucket[b]
  BY <1>1, <1>3, <1>8 DEF LimitInv, Seen
<1>12. s # L!NoRow => s.tokens \in 0..C /\ s.refilledAt \in 0..now
  BY <1>2, <1>8, <1>11 DEF LimitInv, L!TypeOK
<1>13. d = L!TakeToken(s, C, t, cost)
  BY <1>1, <1>2, <1>3, <1>4, <1>5, <1>6 DEF L!Decision
<1>14. Tokens(C, s, t, cost, d, left)
  BY <1>7, <1>9, <1>10, <1>12, <1>13, Taken
<1>15. left \in 0..C /\ d.allowed = (left > 0) /\ left = Found(a)
  BY <1>1, <1>2, <1>3, <1>4, <1>7, <1>14 DEF Tokens, Found
<1>16. L!Paid(a) <=> attempt[a].at = "charging" /\ left > 0
  BY <1>5, <1>6, <1>9, <1>15, Zenon DEF L!Paid
<1>17. PICK full : full = fullAt[b]
  OBVIOUS
<1>18. full \in Nat /\ (s # L!NoRow => Early(C, s, full))
  BY <1>2, <1>8, <1>11, <1>17 DEF LimitInv, Whole
<1>19. PICK after : after = fullAt'[b]
  OBVIOUS
<1>20. after = IF cost = 1 /\ d.allowed THEN L!Most(full, t) + RefillMs ELSE full
  <2>1. fullAt' = [fullAt EXCEPT ![b] =
                     IF L!Paid(a) THEN L!Most(fullAt[b], attempt[a].call.clock) + RefillMs
                     ELSE fullAt[b]]
    BY <1>1, Zenon DEF L!Commit
  <2>2. fullAt \in [L!Buckets -> Nat]
    BY DEF LimitInv
  <2>3. after = IF L!Paid(a) THEN L!Most(full, t) + RefillMs ELSE full
    BY <1>4, <1>8, <1>17, <1>19, <2>1, <2>2
  <2>4. L!Paid(a) <=> cost = 1 /\ d.allowed
    BY <1>5, <1>6, Zenon DEF L!Paid
  <2> QED BY <2>3, <2>4, Zenon
<1>21. /\ after \in Nat /\ d.row \in TokenRows /\ d.row.tokens \in 0..C /\ d.row # L!NoRow
       /\ Early(C, d.row, after)
       /\ (IF s = L!NoRow THEN full = 0 ELSE Exact(C, s, full) /\ s.refilledAt <= t)
            => Exact(C, d.row, after)
  BY <1>9, <1>10, <1>12, <1>13, <1>18, <1>20, MomentMoves
<1>22. d.row.refilledAt \in 0..now
  <2>1. d.row.refilledAt \in Nat /\ (d.row.refilledAt <= t \/ d.row.refilledAt = s.refilledAt)
    BY <1>14, <1>21 DEF Tokens, TokenRows
  <2>2. s.refilledAt \in 0..now
    <3>1. L!NoRow.refilledAt = 0
      BY DEF L!NoRow
    <3> QED BY <1>8, <1>12, <3>1
  <2> QED BY <1>8, <1>9, <2>1, <2>2
<1>23. attempt[a].at = "asking" => d.row.tokens = left
  BY <1>9, <1>14, <1>15 DEF Tokens, L!Most
<1>24. ~(left > 0) => full > 0
  <2>1. ASSUME left = 0 PROVE full > 0
    <3>1. s # L!NoRow /\ s.tokens < C /\ Moment(C, s) > t
      BY <1>10, <1>14, <2>1 DEF Tokens
    <3>2. Moment(C, s) <= full
      BY <1>18, <3>1 DEF Early
    <3>3. Moment(C, s) \in Int
      <4>1. PICK R \in Nat \ {0} : R = RefillMs
        BY LimitNumbers
      <4>2. (C - s.tokens) * R \in Int /\ s.refilledAt \in Nat
        BY <1>9, <1>10, <1>12, <3>1, <4>1, Times DEF TokenRows
      <4> QED BY <3>1, <4>1, <4>2 DEF Moment
    <3> QED BY <1>9, <1>18, <3>1, <3>2, <3>3
  <2> QED BY <1>15, <2>1
<1>25. Found(a) = left
  BY <1>15
<1> QED BY <1>1, <1>2, <1>3, <1>4, <1>6, <1>8, <1>9, <1>10, <1>11, <1>12, <1>15, <1>16, <1>17, <1>19,
           <1>21, <1>22, <1>23, <1>24 DEF Ending

(* What the end of a transaction leaves of the attempt.                    *)
Left(a, at) ==
  /\ attempt[a].call.tx = "looked" /\ (attempt[a].call.saw # L!NoRow \/ L!Free(L!Goes(a)))
  /\ bucket' = [bucket EXCEPT ![L!Goes(a)] = L!Decision(a).row]
  /\ \A x \in L!Attempts : x # a => attempt'[x] = attempt[x]
  /\ attempt'[a].buckets = attempt[a].buckets /\ attempt'[a].at = at
  /\ attempt'[a].next = (IF at = attempt[a].at THEN attempt[a].next + 1 ELSE 1)
  /\ attempt'[a].call.tx = "none"
  /\ attempt'[a].charged = IF L!Paid(a) THEN attempt[a].charged \cup {L!Goes(a)}
                           ELSE attempt[a].charged
  /\ \A b \in L!Buckets : b # L!Goes(a) => bucket'[b] = bucket[b] /\ fullAt'[b] = fullAt[b]
  /\ ~L!Paid(a) => fullAt'[L!Goes(a)] = fullAt[L!Goes(a)]
  /\ torn \subseteq torn' /\ torn' \subseteq torn \cup {L!Goes(a)}
  /\ torn' # torn => attempt[a].call.saw # bucket[L!Goes(a)]
                       \/ attempt[a].call.clock < attempt[a].call.saw.refilledAt
  /\ L!Goes(a) \notin torn' => attempt[a].call.saw = bucket[L!Goes(a)]
                       /\ attempt[a].call.saw.refilledAt <= attempt[a].call.clock
  /\ now' = now

Outcomes == {"asking", "trying", "charging", "tooMany", "unauthorized", "unavailable"}

LEMMA CommitLeaves ==
  ASSUME LimitInv, NEW a \in L!Attempts, NEW at \in Outcomes, L!Commit(a, at)
  PROVE  Left(a, at) /\ attempt' \in [L!Attempts -> Tries] /\ fullAt' \in [L!Buckets -> Nat]
<1>1. Ending(a)
  BY CommitEnds
<1>2. PICK b \in L!Buckets : b = L!Goes(a)
  BY <1>1 DEF Ending
<1>3. PICK charged \in SUBSET L!Buckets :
        charged = IF L!Paid(a) THEN attempt[a].charged \cup {b} ELSE attempt[a].charged
  BY <1>2 DEF LimitInv, Tries
<1>4. PICK next \in Nat : next = IF at = attempt[a].at THEN attempt[a].next + 1 ELSE 1
  BY DEF LimitInv, Tries
<1>5. L!NoCall \in Calls /\ L!NoCall.tx = "none"
  BY DEF L!NoCall, Calls, L!NoRow, TokenRows
<1>6. PICK new : new = [attempt[a] EXCEPT !.at = at, !.next = next, !.call = L!NoCall, !.charged = charged]
  OBVIOUS
<1>7. attempt[a] \in Tries
  BY DEF LimitInv
<1>8. /\ new \in Tries /\ new.at = at /\ new.next = next /\ new.call = L!NoCall
      /\ new.charged = charged /\ new.buckets = attempt[a].buckets
  BY <1>3, <1>4, <1>5, <1>6, <1>7 DEF Tries, Outcomes
<1>9. attempt' = [attempt EXCEPT ![a] = new]
  BY <1>2, <1>3, <1>4, <1>6 DEF L!Commit
<1>10. attempt'[a] = new /\ \A x \in L!Attempts : x # a => attempt'[x] = attempt[x]
  BY <1>9 DEF LimitInv
<1>11. attempt' \in [L!Attempts -> Tries]
  BY <1>8, <1>9 DEF LimitInv
<1>12. PICK full \in Nat : full = fullAt'[b]
  BY <1>1, <1>2 DEF Ending
<1>13. PICK paid : paid = IF L!Paid(a) THEN L!Most(fullAt[b], attempt[a].call.clock) + RefillMs ELSE fullAt[b]
  OBVIOUS
<1>14. fullAt' = [fullAt EXCEPT ![b] = paid]
  BY <1>2, <1>13, Zenon DEF L!Commit
<1>15. /\ fullAt' \in [L!Buckets -> Nat]
       /\ \A x \in L!Buckets : x # b => fullAt'[x] = fullAt[x]
       /\ ~L!Paid(a) => fullAt'[b] = fullAt[b]
  <2>1. fullAt \in [L!Buckets -> Nat]
    BY DEF LimitInv
  <2>2. paid = full
    BY <1>12, <1>14, <2>1
  <2> QED BY <1>12, <1>13, <1>14, <2>1, <2>2
<1>16. /\ bucket' = [bucket EXCEPT ![b] = L!Decision(a).row]
       /\ \A x \in L!Buckets : x # b => bucket'[x] = bucket[x]
  BY <1>2 DEF L!Commit, LimitInv
<1>17. /\ attempt[a].call.tx = "looked" /\ (attempt[a].call.saw # L!NoRow \/ L!Free(b)) /\ now' = now
       /\ torn' = IF attempt[a].call.saw # bucket[b] \/ attempt[a].call.clock < attempt[a].call.saw.refilledAt
                  THEN torn \cup {b} ELSE torn
  BY <1>2 DEF L!Commit
<1>18. /\ torn \subseteq torn' /\ torn' \subseteq torn \cup {b}
       /\ torn' # torn => attempt[a].call.saw # bucket[b]
                       \/ attempt[a].call.clock < attempt[a].call.saw.refilledAt
       /\ b \notin torn' => attempt[a].call.saw = bucket[b]
                            /\ attempt[a].call.saw.refilledAt <= attempt[a].call.clock
  <2>1. attempt[a].call.saw.refilledAt \in Nat /\ attempt[a].call.clock \in Nat
    BY <1>1 DEF Ending, TokenRows
  <2> QED BY <1>17, <2>1
<1> QED BY <1>2, <1>3, <1>4, <1>5, <1>8, <1>10, <1>11, <1>15, <1>16, <1>17, <1>18 DEF Left

(* The buckets after it.                                                   *)
LEMMA CommitBuckets ==
  ASSUME LimitInv, NEW a \in L!Attempts, Ending(a), NEW at, Left(a, at), alone' \subseteq alone,
         fullAt' \in [L!Buckets -> Nat]
  PROVE  /\ L!TypeOK' /\ (bucket \in [L!Buckets -> TokenRows])'
         /\ \A b \in L!Buckets : Whole(b)'
<1>1. PICK b \in L!Buckets : b = L!Goes(a)
  BY DEF Ending
<1>2. PICK wrote \in TokenRows : wrote = L!Decision(a).row
  BY DEF Ending
<1>3. bucket \in [L!Buckets -> TokenRows] /\ bucket' = [bucket EXCEPT ![b] = wrote]
  BY <1>1, <1>2 DEF LimitInv, Left
<1>4. bucket' \in [L!Buckets -> TokenRows] /\ bucket'[b] = wrote
  BY <1>3
<1>5. wrote # L!NoRow /\ wrote.tokens \in 0..L!CapacityOf(b) /\ wrote.refilledAt \in 0..now
  BY <1>1, <1>2 DEF Ending
<1>6. \A x \in L!Buckets : x # b => bucket'[x] = bucket[x] /\ fullAt'[x] = fullAt[x]
  BY <1>1 DEF Left
<1>7. now' = now
  BY DEF Left
<1>8. L!TypeOK'
  <2>1. ASSUME NEW x \in L!Buckets
        PROVE  bucket'[x] = L!NoRow \/
                 (bucket'[x].tokens \in 0..L!CapacityOf(x) /\ bucket'[x].refilledAt \in 0..now')
    <3>1. CASE x = b
      BY <1>4, <1>5, <1>7, <3>1
    <3>2. CASE x # b
      BY <1>6, <1>7, <3>2 DEF LimitInv, L!TypeOK
    <3> QED BY <3>1, <3>2
  <2> QED BY <1>7, <2>1 DEF LimitInv, L!TypeOK
<1>9. ASSUME NEW x \in L!Buckets PROVE Whole(x)'
  <2>1. CASE x # b
    <3>1. Whole(x) /\ (x \in torn' <=> x \in torn)
      BY <1>1, <2>1 DEF LimitInv, Left
    <3> QED BY <1>6, <2>1, <3>1 DEF Whole
  <2>2. CASE x = b
    <3>1. Early(L!CapacityOf(b), wrote, fullAt'[b])
      BY <1>1, <1>2 DEF Ending
    <3>2. ASSUME b \notin torn' PROVE Exact(L!CapacityOf(b), wrote, fullAt'[b])
      <4>1. /\ attempt[a].call.saw = bucket[b] /\ b \notin torn
            /\ attempt[a].call.saw.refilledAt <= attempt[a].call.clock
        BY <1>1, <3>2 DEF Left
      <4>2. Whole(b)
        BY DEF LimitInv
      <4>3. IF attempt[a].call.saw = L!NoRow THEN fullAt[b] = 0
            ELSE Exact(L!CapacityOf(b), attempt[a].call.saw, fullAt[b])
                 /\ attempt[a].call.saw.refilledAt <= attempt[a].call.clock
        BY <4>1, <4>2 DEF Whole
      <4> QED BY <1>1, <1>2, <4>3 DEF Ending
    <3> QED BY <1>4, <1>5, <2>2, <3>1, <3>2 DEF Whole
  <2> QED BY <2>1, <2>2
<1> QED BY <1>4, <1>8, <1>9

(* The answer a transaction ends with, or none.                            *)
Answers(a, at) ==
  \/ at = L!Answer(a) /\ alone' = alone
  \/ at = "unavailable" /\ alone' = alone \ {a}

LEMMA AnswerIs ==
  ASSUME LimitInv, NEW a \in L!Attempts, Ending(a), NEW at, Answers(a, at)
  PROVE  /\ at \in Outcomes /\ at # "none" /\ alone' \subseteq alone
         /\ a \in alone' => at = L!Answer(a)
         /\ at = attempt[a].at => Found(a) > 0 /\ attempt[a].next < Len(attempt[a].buckets)
         /\ at = "tooMany" => ~(Found(a) > 0)
         /\ at = "trying" => /\ attempt[a].at = "asking" /\ Found(a) > 0
                             /\ ~(attempt[a].next < Len(attempt[a].buckets))
         /\ at = "unauthorized" => /\ attempt[a].at = "charging" /\ Found(a) > 0
                                   /\ ~(attempt[a].next < Len(attempt[a].buckets))
         /\ at \in {"asking", "charging"} => at = attempt[a].at
<1>1. L!Answer(a) = IF ~(Found(a) > 0) THEN "tooMany"
                    ELSE IF attempt[a].next < Len(attempt[a].buckets) THEN attempt[a].at
                    ELSE IF attempt[a].at = "charging" THEN "unauthorized" ELSE "trying"
  <2>1. L!Decision(a).allowed = (Found(a) > 0)
    BY DEF Ending
  <2> QED BY <2>1, Zenon DEF L!Answer
<1>2. attempt[a].at \in {"asking", "charging"}
  BY DEF Ending
<1>3. CASE at = L!Answer(a)
  BY <1>1, <1>2, <1>3 DEF Answers, Outcomes
<1>4. CASE at = "unavailable" /\ alone' = alone \ {a}
  BY <1>2, <1>4 DEF Outcomes
<1> QED BY <1>3, <1>4 DEF Answers

(* The attempts after it.                                                  *)
LEMMA CommitTries ==
  ASSUME LimitInv, NEW a \in L!Attempts, Ending(a), NEW at, Left(a, at), Answers(a, at)
  PROVE  /\ \A x \in L!Attempts : (Sane(attempt[x], now) /\ Seen(x) /\ Refused(x))'
         /\ \A x, other \in L!Attempts, b \in L!Buckets :
              L!Locks(x, b)' /\ L!Locks(other, b)' => x = other
         /\ \A b \in L!Buckets : fullAt'[b] > 0 => \E x \in L!Attempts : b \in attempt'[x].charged
         /\ \A b \in torn' : \E x \in L!Attempts \ alone' : L!Uses(x, b)' /\ attempt'[x].at # "none"
<1>1. PICK b \in L!Buckets : b = L!Goes(a)
  BY DEF Ending
<1>2. \A x \in L!Attempts : attempt[x].charged \subseteq attempt'[x].charged
  BY DEF Left
<1>3. Sane(attempt'[a], now')
  <2>1. attempt[a].next \in Nat /\ Sane(attempt[a], now)
    BY DEF LimitInv, Tries
  <2>2. DOMAIN attempt[a].buckets = 1..Len(attempt[a].buckets) /\ Len(attempt[a].buckets) \in Nat
    BY LimitFacts
  <2>3. attempt[a].next \in 1..Len(attempt[a].buckets)
    BY <2>2 DEF Ending
  <2>4. at \in {"asking", "trying", "charging"} => attempt'[a].next \in DOMAIN attempt'[a].buckets
    <3>1. CASE at = attempt[a].at
      BY <2>1, <2>2, <2>3, <3>1, AnswerIs DEF Left
    <3>2. CASE at # attempt[a].at
      BY <2>1, <2>2, <2>3, <3>2 DEF Left
    <3> QED BY <3>1, <3>2
  <2>5. at = "trying" => attempt'[a].next = 1
    BY AnswerIs DEF Left
  <2>6. at \in {"none", "asking", "trying"} => attempt'[a].charged = {}
    <3>1. at \in {"none", "asking", "trying"} => attempt[a].at = "asking"
      BY AnswerIs
    <3>2. attempt[a].at = "asking" => ~L!Paid(a) /\ attempt[a].charged = {}
      BY <2>1 DEF Ending, Sane
    <3> QED BY <3>1, <3>2 DEF Left
  <2> QED BY <2>1, <2>4, <2>5, <2>6 DEF Left, Sane
<1>4. ASSUME NEW x \in L!Attempts, x # a, L!Locks(x, b) PROVE FALSE
  <2>1. attempt[a].call.saw # L!NoRow => L!Locks(a, b)
    BY <1>1 DEF L!Locks, Left
  <2>2. ~L!Free(b)
    BY <1>4 DEF L!Free
  <2> QED BY <1>1, <1>4, <2>1, <2>2 DEF Left, LimitInv
<1>5. ASSUME NEW x \in L!Attempts PROVE (Sane(attempt[x], now) /\ Seen(x))'
  <2>1. CASE x = a
    BY <1>3, <2>1 DEF Left, Seen
  <2>2. CASE x # a
    <3>1. Sane(attempt[x], now) /\ Seen(x) /\ attempt'[x] = attempt[x] /\ now' = now
      BY <2>2 DEF LimitInv, Left
    <3>2. ASSUME attempt[x].call.tx = "looked", attempt[x].call.saw # L!NoRow
          PROVE  attempt[x].call.saw = bucket'[L!Goes(x)]
      <4>1. L!Goes(x) \in L!Buckets
        BY <3>2, LimitFacts
      <4>2. L!Goes(x) # b
        BY <1>4, <2>2, <3>2 DEF L!Locks
      <4> QED BY <1>1, <3>1, <3>2, <4>1, <4>2 DEF Seen, Left
    <3> QED BY <3>1, <3>2 DEF Seen, L!Goes
  <2> QED BY <2>1, <2>2
<1>6. ASSUME NEW x \in L!Attempts, NEW y \in L!Buckets, L!Locks(x, y)'
      PROVE  x # a /\ L!Locks(x, y)
  BY <1>6 DEF Left, L!Locks, L!Goes
<1>7. \A x, other \in L!Attempts, y \in L!Buckets : L!Locks(x, y)' /\ L!Locks(other, y)' => x = other
  BY <1>6 DEF LimitInv
<1>8. ASSUME NEW x \in L!Attempts PROVE Refused(x)'
  <2>1. CASE x # a
    <3>1. Refused(x) /\ attempt'[x] = attempt[x]
      BY <2>1 DEF LimitInv, Left
    <3> QED BY <1>2, <3>1 DEF Refused, L!Uses
  <2>2. CASE x = a
    <3>1. ASSUME at = "tooMany"
          PROVE  L!Uses(a, b)' /\ \E other \in L!Attempts : b \in attempt'[other].charged
      <4>1. fullAt[b] > 0 /\ L!Uses(a, b)
        BY <1>1, <3>1, AnswerIs DEF Ending
      <4>2. PICK other \in L!Attempts : b \in attempt[other].charged
        BY <4>1 DEF LimitInv
      <4> QED BY <1>2, <4>1, <4>2 DEF L!Uses, Left
    <3> QED BY <2>2, <3>1 DEF Refused, Left
  <2> QED BY <2>1, <2>2
<1>9. ASSUME NEW y \in L!Buckets, fullAt'[y] > 0
      PROVE  \E x \in L!Attempts : y \in attempt'[x].charged
  <2>1. CASE y = b /\ L!Paid(a)
    BY <1>1, <2>1 DEF Left
  <2>2. CASE ~(y = b /\ L!Paid(a))
    <3>1. fullAt[y] > 0
      BY <1>1, <1>9, <2>2 DEF Left
    <3> QED BY <1>2, <3>1 DEF LimitInv
  <2> QED BY <2>1, <2>2
<1>10. ASSUME NEW y \in torn'
       PROVE  \E x \in L!Attempts \ alone' : L!Uses(x, y)' /\ attempt'[x].at # "none"
  <2>1. CASE y \in torn
    <3>1. PICK x \in L!Attempts \ alone : L!Uses(x, y) /\ attempt[x].at # "none"
      BY <2>1 DEF LimitInv
    <3>2. L!Uses(x, y)' /\ attempt'[x].at # "none" /\ x \notin alone'
      BY <3>1, AnswerIs DEF Left, L!Uses
    <3> QED BY <3>1, <3>2
  <2>2. CASE y \notin torn
    <3>1. y = b /\ (attempt[a].call.saw # bucket[b]
                    \/ attempt[a].call.clock < attempt[a].call.saw.refilledAt)
      BY <1>1, <1>10, <2>2 DEF Left
    <3>2. ASSUME a \in alone PROVE FALSE
      <4>1. LoneInv(a)
        BY <3>2 DEF LimitInv
      <4>2. attempt[a].call.saw = bucket[b] /\ bucket[b].refilledAt <= attempt[a].call.clock
        BY <1>1, <4>1 DEF LoneInv, Left, Ending, Hour
      <4>3. bucket[b].refilledAt \in Nat /\ attempt[a].call.clock \in Nat
        BY DEF LimitInv, TokenRows, Ending
      <4> QED BY <3>1, <4>2, <4>3
    <3>3. L!Uses(a, b)' /\ attempt'[a].at # "none"
      BY <1>1, AnswerIs DEF Left, L!Uses, Ending
    <3> QED BY <3>1, <3>2, <3>3, AnswerIs
  <2> QED BY <2>1, <2>2
<1> QED BY <1>5, <1>7, <1>8, <1>9, <1>10

(* An attempt alone after it.                                              *)
LEMMA CommitAlone ==
  ASSUME LimitInv, NEW a \in L!Attempts, Ending(a), NEW at, Left(a, at), Answers(a, at),
         L!TypeOK', NEW x \in L!Attempts, x \in alone'
  PROVE  (LoneInv(x) /\ Paying(x))'
<1>1. PICK b \in L!Buckets : b = L!Goes(a)
  BY DEF Ending
<1>2. x \in alone /\ LoneInv(x) /\ Paying(x)
  BY AnswerIs DEF LimitInv
<1>3. CASE x # a
  <2>1. attempt'[x] = attempt[x] /\ ~L!Open(x)
    BY <1>2, <1>3 DEF Left, LoneInv, Ending
  <2>2. ~L!Open(x)' /\ attempt'[x].call.tx = "none"
    <3>1. attempt[x].call.tx = "none"
      BY <2>1, LimitFacts
    <3> QED BY <2>1, <3>1 DEF L!Open
  <2> QED BY <1>2, <2>1, <2>2 DEF LoneInv, Paying, L!Open, L!Uses
<1>4. CASE x = a
  <2>0. PICK n : n = attempt[a].next
    OBVIOUS
  <2>1. at = L!Answer(a) /\ LoneInv(a) /\ Paying(a)
    BY <1>2, <1>4, AnswerIs
  <2>2. /\ DOMAIN attempt[a].buckets = 1..Len(attempt[a].buckets) /\ Len(attempt[a].buckets) \in Nat
        /\ attempt[a].next \in 1..Len(attempt[a].buckets) /\ attempt[a].buckets[attempt[a].next] = b
        /\ \A k \in 1..Len(attempt[a].buckets) : attempt[a].buckets[k] \in L!Buckets
        /\ \A k \in 1..Len(attempt[a].buckets) :
             k # attempt[a].next => attempt[a].buckets[k] # b
    <3>1. /\ attempt[a].next \in DOMAIN attempt[a].buckets
          /\ \A j, k \in DOMAIN attempt[a].buckets :
               attempt[a].buckets[j] = attempt[a].buckets[k] => j = k
      BY LimitFacts DEF Ending, Sane
    <3>2. attempt[a].buckets[attempt[a].next] = b
      BY <1>1 DEF L!Goes
    <3> QED BY <3>1, <3>2, LimitFacts
  <2>3. /\ attempt[a].call.saw = bucket[b] /\ Hour(a) = attempt[a].call.clock /\ Hour(a)' = now
        /\ now \in Nat /\ Hour(a) \in Nat /\ Hour(a) <= now
    BY <1>1, <2>1 DEF LoneInv, Left, Hour, Ending
  <2>4. ASSUME NEW k \in 1..Len(attempt[a].buckets), k # attempt[a].next, Ready(a, k)
        PROVE  Ready(a, k)'
    <3>1. PICK y \in L!Buckets : y = attempt[a].buckets[k] /\ y # b
      BY <2>2, <2>4
    <3>2. bucket[y] \in TokenRows /\ (bucket[y] = L!NoRow \/ bucket[y].tokens \in 0..L!CapacityOf(y))
      BY DEF LimitInv, L!TypeOK
    <3>3. L!CapacityOf(y) \in Nat \ {0}
      BY LimitNumbers
    <3>4. LeftAt(bucket[y], L!CapacityOf(y), Hour(a)) > 0
      BY <2>4, <3>1 DEF Ready
    <3>5. LeftAt(bucket[y], L!CapacityOf(y), now) > 0
      BY <2>3, <3>2, <3>3, <3>4, LeftGrows
    <3>6. bucket'[y] = bucket[y] /\ attempt'[a].buckets[k] = y
      BY <1>1, <3>1 DEF Left
    <3> QED BY <2>3, <3>1, <3>5, <3>6 DEF Ready
  <2>5. ASSUME attempt[a].at = "asking", Found(a) > 0 PROVE Ready(a, n)'
    <3>1. PICK wrote \in TokenRows : wrote = L!Decision(a).row
      BY DEF Ending
    <3>2. wrote # L!NoRow /\ wrote.tokens \in 0..L!CapacityOf(b) /\ wrote.tokens > 0
      BY <1>1, <2>5, <3>1 DEF Ending
    <3>3. L!CapacityOf(b) \in Nat \ {0}
      BY LimitNumbers
    <3>4. LeftAt(wrote, L!CapacityOf(b), now) >= wrote.tokens
      <4>1. PICK C \in Nat \ {0} : C = L!CapacityOf(b)
        BY <3>3
      <4>2. PICK d : d = L!TakeToken(wrote, C, now, 0)
        OBVIOUS
      <4>3. PICK left : left = LeftAt(wrote, C, now)
        OBVIOUS
      <4>4. wrote.tokens \in 0..C
        BY <3>2, <4>1
      <4>5. Tokens(C, wrote, now, 0, d, left)
        BY <2>3, <4>2, <4>3, <4>4, Taken
      <4> QED BY <3>2, <4>1, <4>3, <4>5 DEF Tokens
    <3>5. LeftAt(wrote, L!CapacityOf(b), now) > 0
      <4>1. LeftAt(wrote, L!CapacityOf(b), now) \in Int
        <5>1. PICK C \in Nat \ {0} : C = L!CapacityOf(b)
          BY <3>3
        <5>2. PICK d : d = L!TakeToken(wrote, C, now, 0)
          OBVIOUS
        <5>3. PICK left : left = LeftAt(wrote, C, now)
          OBVIOUS
        <5>4. Tokens(C, wrote, now, 0, d, left)
          BY <2>3, <3>2, <5>1, <5>2, <5>3, Taken
        <5> QED BY <5>1, <5>3, <5>4 DEF Tokens
      <4> QED BY <3>2, <3>4, <4>1
    <3>6. bucket'[b] = wrote /\ attempt'[a].buckets[n] = b
      <4>1. bucket \in [L!Buckets -> TokenRows] /\ bucket' = [bucket EXCEPT ![b] = wrote]
        BY <1>1, <3>1 DEF LimitInv, Left
      <4> QED BY <2>0, <2>2, <4>1 DEF Left
    <3> QED BY <2>3, <3>5, <3>6 DEF Ready
  <2>6. at = "asking" => \A k \in 1..attempt'[a].next - 1 : Ready(a, k)'
    <3>1. ASSUME at = "asking", NEW k \in 1..attempt'[a].next - 1 PROVE Ready(a, k)'
      <4>1. attempt[a].at = "asking" /\ Found(a) > 0 /\ attempt'[a].next = attempt[a].next + 1
        BY <3>1, AnswerIs DEF Left, Ending
      <4>2. k \in 1..attempt[a].next
        BY <2>2, <3>1, <4>1
      <4>3. k # attempt[a].next => k \in 1..Len(attempt[a].buckets) /\ Ready(a, k)
        BY <2>1, <2>2, <4>1, <4>2 DEF LoneInv
      <4> QED BY <2>0, <2>2, <2>4, <2>5, <4>1, <4>2, <4>3
    <3> QED BY <3>1
  <2>7. at = "trying" => \A k \in Given(a)' : Ready(a, k)'
    <3>1. ASSUME at = "trying", NEW k \in Given(a)' PROVE Ready(a, k)'
      <4>1. /\ attempt[a].at = "asking" /\ Found(a) > 0
            /\ ~(attempt[a].next < Len(attempt[a].buckets))
        BY <3>1, AnswerIs
      <4>2. k \in 1..attempt[a].next /\ k \in 1..Len(attempt[a].buckets)
        BY <2>2, <3>1, <4>1 DEF Given, Left
      <4>3. k # attempt[a].next => Ready(a, k)
        BY <2>1, <2>2, <4>1, <4>2 DEF LoneInv
      <4> QED BY <2>0, <2>4, <2>5, <4>1, <4>2, <4>3
    <3> QED BY <3>1
  <2>8. at = "charging" =>
          /\ \A k \in Given(a)' : k >= attempt'[a].next => Ready(a, k)'
          /\ \A k \in 1..attempt'[a].next - 1 : attempt'[a].buckets[k] \in attempt'[a].charged
    <3>1. ASSUME at = "charging"
          PROVE  attempt[a].at = "charging" /\ L!Paid(a) /\ attempt'[a].next = attempt[a].next + 1
      BY <3>1, AnswerIs DEF Left, Ending
    <3>2. ASSUME at = "charging", NEW k \in Given(a)', k >= attempt'[a].next PROVE Ready(a, k)'
      <4>1. k \in 1..Len(attempt[a].buckets) /\ k # attempt[a].next /\ k >= attempt[a].next
        BY <2>2, <3>1, <3>2 DEF Given, Left
      <4>2. Ready(a, k)
        BY <2>1, <2>2, <3>1, <3>2, <4>1 DEF LoneInv, Given
      <4> QED BY <2>4, <4>1, <4>2
    <3>3. ASSUME at = "charging", NEW k \in 1..attempt'[a].next - 1
          PROVE  attempt'[a].buckets[k] \in attempt'[a].charged
      <4>1. k \in 1..attempt[a].next
        BY <2>2, <3>1, <3>3
      <4>2. k # attempt[a].next => attempt[a].buckets[k] \in attempt[a].charged
        BY <2>1, <2>2, <3>1, <3>3, <4>1 DEF LoneInv
      <4> QED BY <1>1, <2>2, <3>1, <3>3, <4>2 DEF Left
    <3> QED BY <3>2, <3>3
  <2>9. Paying(a)'
    <3>1. ASSUME at = "unauthorized", NEW y \in L!Buckets, L!Uses(a, y)'
          PROVE  y \in attempt'[a].charged
      <4>1. attempt[a].at = "charging" /\ L!Paid(a) /\ ~(attempt[a].next < Len(attempt[a].buckets))
        BY <3>1, AnswerIs DEF Ending
      <4>2. PICK k \in 1..Len(attempt[a].buckets) : attempt[a].buckets[k] = y
        BY <2>2, <3>1 DEF L!Uses, Left
      <4>3. k # attempt[a].next => k \in 1..attempt[a].next - 1
        BY <2>2, <4>1, <4>2
      <4> QED BY <1>1, <2>1, <2>2, <4>1, <4>2, <4>3 DEF Left, LoneInv
    <3>2. ASSUME at = "tooMany" PROVE attempt'[a].charged = {}
      <4>1. ~(Found(a) > 0)
        BY <3>2, AnswerIs
      <4>2. attempt[a].at # "charging"
        <5>1. ASSUME attempt[a].at = "charging" PROVE Ready(a, attempt[a].next)
          BY <2>1, <2>2, <5>1 DEF LoneInv, Given
        <5>2. Ready(a, attempt[a].next) => Found(a) > 0
          BY <1>1, <2>2, <2>3 DEF Ready, Found
        <5> QED BY <4>1, <5>1, <5>2
      <4>3. attempt[a].at = "asking" /\ attempt[a].charged = {} /\ ~L!Paid(a)
        BY <4>1, <4>2, LimitFacts DEF Ending, Sane
      <4> QED BY <4>3 DEF Left
    <3> QED BY <3>1, <3>2 DEF Paying, Left
  <2>10. \A other \in L!Attempts : other # a => ~L!Open(other)'
    BY <2>1 DEF LoneInv, Left, Ending, L!Open
  <2>11. \A y \in L!Buckets : bucket'[y].refilledAt <= now
    BY <2>3, LimitNumbers DEF L!TypeOK, L!NoRow, Left
  <2> QED BY <1>4, <2>3, <2>6, <2>7, <2>8, <2>9, <2>10, <2>11 DEF LoneInv, Left
<1> QED BY <1>3, <1>4

LEMMA WriteEndHolds ==
  ASSUME LimitInv, NEW a \in L!Attempts, NEW at, L!Commit(a, at), Answers(a, at)
  PROVE  LimitInv'
<1>1. Ending(a)
  BY CommitEnds
<1>2. at \in Outcomes /\ alone' \subseteq alone
  BY <1>1, AnswerIs
<1>3. Left(a, at) /\ attempt' \in [L!Attempts -> Tries] /\ fullAt' \in [L!Buckets -> Nat]
  BY <1>2, CommitLeaves
<1>4. /\ L!TypeOK' /\ (bucket \in [L!Buckets -> TokenRows])'
      /\ \A b \in L!Buckets : Whole(b)'
  BY <1>1, <1>2, <1>3, CommitBuckets
<1>5. /\ \A x \in L!Attempts : (Sane(attempt[x], now) /\ Seen(x) /\ Refused(x))'
      /\ \A x, other \in L!Attempts, b \in L!Buckets :
           L!Locks(x, b)' /\ L!Locks(other, b)' => x = other
      /\ \A b \in L!Buckets : fullAt'[b] > 0 => \E x \in L!Attempts : b \in attempt'[x].charged
      /\ \A b \in torn' : \E x \in L!Attempts \ alone' : L!Uses(x, b)' /\ attempt'[x].at # "none"
  BY <1>1, <1>3, CommitTries
<1>6. alone' \subseteq L!Attempts
  BY <1>2 DEF LimitInv, L!TypeOK
<1>7. \A x \in alone' : (LoneInv(x) /\ Paying(x))'
  BY <1>1, <1>3, <1>4, <1>6, CommitAlone
<1> QED BY <1>3, <1>4, <1>5, <1>7 DEF LimitInv

LEMMA StepLimit == ASSUME LimitInv, L!Next \/ UNCHANGED L!vars PROVE LimitInv'
<1>1. ASSUME NEW a \in L!Attempts, NEW e \in Emails, NEW known \in BOOLEAN, NEW wrong \in BOOLEAN,
             L!Begin(a, e, known, wrong)
      PROVE  LimitInv'
  BY <1>1, BeginHolds
<1>2. ASSUME NEW a \in L!Attempts, L!Write(a) PROVE LimitInv'
  BY <1>2, WriteEndHolds DEF L!Write, Answers
<1>3. ASSUME NEW a \in L!Attempts, L!CommitUnknown(a) PROVE LimitInv'
  BY <1>3, WriteEndHolds DEF L!CommitUnknown, Answers
<1>4. CASE UNCHANGED L!vars
  BY <1>4 DEF LimitInv, L!vars, L!TypeOK, Whole, Seen, Refused, L!Locks, LoneInv, Paying, L!Open,
              L!Goes, L!Uses, Ready, Given, Hour
<1> QED BY <1>1, <1>2, <1>3, <1>4, ConnectHolds, LookHolds, TryHolds, UnavailableHolds, TickHolds DEF L!Next

(* What the tokens say of the failures.                                    *)
LEMMA LimitGives == ASSUME LimitInv PROVE L!LoginIsLimited
<1>1. ASSUME NEW b \in L!Buckets
      PROVE  /\ L!Remaining(b) >= L!CapacityOf(b) - L!Owed(b)
             /\ b \notin torn => L!Remaining(b) = L!CapacityOf(b) - L!Owed(b)
  <2>1. PICK C \in Nat \ {0} : C = L!CapacityOf(b)
    BY LimitNumbers
  <2>2. PICK R \in Nat \ {0} : R = RefillMs
    BY LimitNumbers
  <2>3. PICK s \in TokenRows : s = bucket[b]
    BY DEF LimitInv
  <2>4. PICK full \in Nat : full = fullAt[b]
    BY DEF LimitInv
  <2>5. now \in Nat /\ (s = L!NoRow \/ (s.tokens \in 0..C /\ s.refilledAt \in 0..now))
    BY <2>1, <2>3, LimitNumbers DEF LimitInv, L!TypeOK
  <2>6. PICK d : d = L!TakeToken(s, C, now, 0)
    OBVIOUS
  <2>7. PICK left : left = LeftAt(s, C, now)
    OBVIOUS
  <2>8. Tokens(C, s, now, 0, d, left)
    BY <2>5, <2>6, <2>7, Taken
  <2>9. L!Remaining(b) = left
    BY <2>1, <2>3, <2>7 DEF L!Remaining, LeftAt
  <2>10. L!Owed(b) = (L!Most(0, full - now) + R - 1) \div R
    BY <2>2, <2>4 DEF L!Owed
  <2>11. CASE s = L!NoRow
    <3>1. full = 0
      BY <2>3, <2>4, <2>11 DEF LimitInv, Whole
    <3>2. L!Most(0, full - now) = 0
      BY <2>5, <3>1 DEF L!Most
    <3>3. (0 * R + (R - 1)) \div R = 0
      BY DivisionIs
    <3>4. 0 + R - 1 = 0 * R + (R - 1)
      OBVIOUS
    <3>5. L!Owed(b) = 0
      BY <2>10, <3>2, <3>3, <3>4
    <3> QED BY <2>1, <2>8, <2>9, <2>11, <3>5 DEF Tokens
  <2>12. CASE s # L!NoRow
    <3>1. /\ Early(C, s, full) /\ s.tokens \in 0..C /\ s.refilledAt \in 0..now
          /\ b \notin torn => Exact(C, s, full)
      BY <2>1, <2>3, <2>4, <2>5, <2>12 DEF LimitInv, Whole
    <3>2. PICK m \in Nat : m = Moment(C, s)
      <4>1. (C - s.tokens) * R \in Nat
        BY <3>1, Times
      <4> QED BY <2>2, <3>1, <4>1 DEF Moment
    <3>3. PICK p \in Nat : p = L!Most(0, m - now)
      BY <2>5 DEF L!Most
    <3>4. PICK q \in Nat : q = L!Most(0, full - now)
      BY <2>5 DEF L!Most
    <3>5. p + R - 1 \in Nat /\ q + R - 1 \in Nat
      OBVIOUS
    <3>6. PICK g \in Nat : g = (p + R - 1) \div R
      BY <3>5, Division
    <3>7. PICK h \in Nat : h = (q + R - 1) \div R
      BY <3>5, Division
    <3>8. left = C - g
      BY <2>2, <2>5, <2>8, <2>12, <3>1, <3>2, <3>3, <3>6 DEF Tokens
    <3>9. L!Owed(b) = h
      BY <2>10, <3>4, <3>7
    <3>10. p <= q
      BY <2>5, <3>1, <3>2, <3>3, <3>4 DEF L!Most, Early, Moment
    <3>11. g <= h
      <4>1. p + R - 1 <= q + R - 1
        BY <3>10
      <4> QED BY <3>5, <3>6, <3>7, <4>1, DivisionGrows
    <3>12. b \notin torn => p = q
      BY <2>5, <3>1, <3>2, <3>3, <3>4 DEF L!Most, Exact, Moment
    <3> QED BY <2>1, <2>9, <3>6, <3>7, <3>8, <3>9, <3>11, <3>12
  <2> QED BY <2>11, <2>12
<1>2. \A b \in torn : \E a \in L!Attempts \ alone : L!Uses(a, b)
  BY DEF LimitInv
<1>3. \A a \in alone : Paying(a)
  BY DEF LimitInv
<1>4. \A a \in L!Attempts : Refused(a)
  BY DEF LimitInv
<1>5. L!TypeOK
  BY DEF LimitInv
<1> QED BY <1>1, <1>2, <1>3, <1>4, <1>5 DEF L!LoginIsLimited, L!TokensAreFailures, L!LoneGuessIsPaid,
                                          Paying, Refused
-------------------------------------------------------------------------------
(* The screen that watches a run: a picture of the runs is never ahead of  *)
(* a later one.                                                            *)
Statuses == {"queued", "running", "finished", "gone"}
Pictures == {p \in Seq(Statuses) : Len(p) <= MaxRuns}
Kept(p, q) ==
  /\ Len(p) <= Len(q)
  /\ \A i \in DOMAIN p : /\ p[i] = "finished" => q[i] \in {"finished", "gone"}
                         /\ p[i] = "gone" => q[i] = "gone"

WatchInv ==
  /\ screen \in W!Screens
  /\ runs \in Pictures /\ list \in Pictures
  /\ asking \in {W!No, W!Answered} \X Pictures
  /\ polled \in [W!Ids -> Statuses \cup {W!No}] /\ polling \in [W!Ids -> Statuses \cup {W!No}]
  /\ chosen \in 0..Len(runs)
  /\ launch \in {W!No, W!Busy, W!Answered} \X (0..Len(runs))
  /\ launch[1] = W!Answered => launch[2] # 0
  /\ Kept(list, runs)
  /\ asking[1] = W!Answered => Kept(list, asking[2]) /\ Kept(asking[2], runs)
  /\ \A i \in W!Ids : polling[i] # W!No => polled[i] # "finished"

LEMMA Pictured ==
  /\ MaxRuns \in Nat /\ <<>> \in Pictures
  /\ \A p \in Pictures : Kept(p, p) /\ Len(p) \in 0..MaxRuns /\ DOMAIN p \subseteq W!Ids
                         /\ DOMAIN p = 1..Len(p) /\ \A i \in DOMAIN p : p[i] \in Statuses
<1>1. MaxRuns \in Nat
  BY EndsAssumption DEF EndsAssumption
<1>2. <<>> \in Pictures
  BY <1>1 DEF Pictures
<1>3. ASSUME NEW p \in Pictures
      PROVE  Kept(p, p) /\ Len(p) \in 0..MaxRuns /\ DOMAIN p \subseteq W!Ids
             /\ DOMAIN p = 1..Len(p) /\ \A i \in DOMAIN p : p[i] \in Statuses
  <2>1. p \in Seq(Statuses) /\ Len(p) <= MaxRuns /\ Len(p) \in Nat
    BY DEF Pictures
  <2>2. DOMAIN p = 1..Len(p) /\ \A i \in DOMAIN p : p[i] \in Statuses
    BY <2>1
  <2>3. Kept(p, p)
    BY <2>1 DEF Kept
  <2> QED BY <1>1, <2>1, <2>2, <2>3 DEF W!Ids
<1> QED BY <1>1, <1>2, <1>3

LEMMA KeptOn ==
  ASSUME NEW p \in Pictures, NEW q \in Pictures, NEW r \in Pictures, Kept(p, q), Kept(q, r)
  PROVE  Kept(p, r)
<1>1. /\ Len(p) \in Nat /\ Len(q) \in Nat /\ Len(r) \in Nat
      /\ DOMAIN p = 1..Len(p) /\ DOMAIN q = 1..Len(q)
  BY Pictured
<1>2. Len(p) <= Len(r) /\ \A i \in DOMAIN p : i \in DOMAIN q
  BY <1>1 DEF Kept
<1> QED BY <1>2 DEF Kept

LEMMA ActivePictured ==
  ASSUME NEW p \in Pictures
  PROVE  W!ActiveOf(p) \in 0..Len(p)
<1>1. CASE W!ActiveIn(p) = {}
  BY <1>1, Pictured DEF W!ActiveOf
<1>2. CASE W!ActiveIn(p) # {}
  <2>1. W!ActiveOf(p) \in W!ActiveIn(p)
    BY <1>2 DEF W!ActiveOf
  <2>2. W!ActiveIn(p) \subseteq 1..Len(p) /\ 1..Len(p) \subseteq 0..Len(p)
    BY Pictured DEF W!ActiveIn
  <2> QED BY <2>1, <2>2
<1> QED BY <1>1, <1>2

LEMMA WatchStarts == ASSUME W!WatchInit PROVE WatchInv
<1>1. /\ screen \in W!Screens /\ runs = <<>> /\ list = <<>> /\ asking = <<W!No, <<>>>>
      /\ polled = [i \in W!Ids |-> W!No] /\ polling = [i \in W!Ids |-> W!No]
      /\ chosen = 0 /\ launch = <<W!No, 0>>
  BY DEF W!WatchInit
<1>2. W!No # W!Answered
  BY DEF W!No, W!Answered
<1>3. 0 \in 0..MaxRuns
  BY Pictured
<1>4. Kept(list, runs)
  BY <1>1, Pictured
<1> QED BY <1>1, <1>2, <1>3, <1>4, Pictured DEF WatchInv

(* The runs of the gateway only go on.                                     *)
LEMMA RunsGoOn ==
  ASSUME WatchInv, W!OthersStart \/ W!Press \/ \E i \in W!Ids : W!RunMoves(i)
  PROVE  runs' \in Pictures /\ Kept(runs, runs')
<1>1. runs \in Pictures /\ runs \in Seq(Statuses) /\ Len(runs) \in Nat /\ DOMAIN runs = 1..Len(runs)
  BY Pictured DEF WatchInv, Pictures
<1>2. ASSUME runs' = Append(runs, W!First), Len(runs) < MaxRuns
      PROVE  runs' \in Pictures /\ Kept(runs, runs')
  <2>1. W!First \in Statuses
    BY DEF W!First, Statuses
  <2>2. /\ runs' \in Seq(Statuses) /\ Len(runs') = Len(runs) + 1
        /\ \A i \in DOMAIN runs : runs'[i] = runs[i]
    BY <1>1, <1>2, <2>1
  <2> QED BY <1>1, <1>2, <2>2, Pictured DEF Pictures, Kept
<1>3. ASSUME NEW i \in W!Ids, W!RunMoves(i) PROVE runs' \in Pictures /\ Kept(runs, runs')
  <2>1. PICK s : s = CASE runs[i] = "queued" -> "running" [] runs[i] = "running" -> "finished"
                       [] runs[i] = "finished" -> "gone"
    OBVIOUS
  <2>2. i \in DOMAIN runs /\ runs[i] # "gone" /\ runs' = [runs EXCEPT ![i] = s]
    BY <1>3, <2>1 DEF W!RunMoves
  <2>3. runs[i] \in {"queued", "running", "finished"}
    BY <1>1, <2>2, Pictured DEF Statuses
  <2>4. s \in Statuses /\ (runs[i] = "finished" => s = "gone")
    BY <2>1, <2>3 DEF Statuses
  <2>5. runs' \in Seq(Statuses) /\ Len(runs') = Len(runs)
    BY <1>1, <2>2, <2>4
  <2>6. \A j \in DOMAIN runs : runs'[j] = IF j = i THEN s ELSE runs[j]
    BY <2>2
  <2>7. runs' \in Pictures
    BY <1>1, <2>5 DEF Pictures
  <2>8. Kept(runs, runs')
    BY <1>1, <2>2, <2>4, <2>5, <2>6 DEF Kept
  <2> QED BY <2>7, <2>8
<1>4. CASE runs' = runs
  BY <1>1, <1>4, Pictured
<1>5. CASE W!OthersStart
  BY <1>2, <1>5 DEF W!OthersStart
<1>6. CASE W!Press
  <2>1. \/ Len(runs) < MaxRuns /\ runs' = Append(runs, W!First)
        \/ runs' = runs
    BY <1>6 DEF W!Press
  <2> QED BY <1>2, <1>4, <2>1
<1> QED BY <1>3, <1>5, <1>6

LEMMA EffectsAsk ==
  ASSUME NEW request, NEW notice, W!Effects(request, notice)
  PROVE  asking' \in {<<W!No, <<>>>>, <<W!Answered, runs'>>, request}
BY DEF W!Effects, W!Refreshed

(* What the list, and the request of it, may become.                       *)
LEMMA AskingHolds ==
  ASSUME WatchInv, runs' \in Pictures, Kept(runs, runs'),
         asking' \in {<<W!No, <<>>>>, <<W!Answered, runs>>, <<W!Answered, runs'>>, asking}
  PROVE  /\ asking' \in {W!No, W!Answered} \X Pictures
         /\ Kept(list, runs')
         /\ asking'[1] = W!Answered => Kept(list, asking'[2]) /\ Kept(asking'[2], runs')
<1>1. PICK old : old = runs
  OBVIOUS
<1>2. PICK new : new = runs'
  OBVIOUS
<1>3. PICK l : l = list
  OBVIOUS
<1>4. PICK p : p = asking[2]
  OBVIOUS
<1>5. /\ old \in Pictures /\ new \in Pictures /\ l \in Pictures /\ p \in Pictures
      /\ Kept(old, new) /\ Kept(l, old) /\ asking \in {W!No, W!Answered} \X Pictures
      /\ asking[1] = W!Answered => Kept(l, p) /\ Kept(p, old)
  BY <1>1, <1>2, <1>3, <1>4 DEF WatchInv
<1>6. W!No # W!Answered
  BY DEF W!No, W!Answered
<1>7. Kept(l, new) /\ Kept(new, new) /\ (Kept(p, old) => Kept(p, new))
  BY <1>5, KeptOn, Pictured
<1>8. CASE asking' = <<W!No, <<>>>>
  <2>1. asking'[1] = W!No /\ asking' \in {W!No, W!Answered} \X Pictures
    BY <1>8, Pictured
  <2> QED BY <1>2, <1>3, <1>6, <1>7, <2>1
<1>9. CASE asking' = <<W!Answered, runs>>
  <2>1. asking'[2] = old /\ asking' \in {W!No, W!Answered} \X Pictures
    BY <1>1, <1>5, <1>9
  <2> QED BY <1>2, <1>3, <1>5, <1>7, <2>1
<1>10. CASE asking' = <<W!Answered, runs'>>
  <2>1. asking'[2] = new /\ asking' \in {W!No, W!Answered} \X Pictures
    BY <1>2, <1>5, <1>10
  <2> QED BY <1>2, <1>3, <1>7, <2>1
<1>11. CASE asking' = asking
  <2>1. asking'[2] = p /\ asking'[1] = asking[1]
    BY <1>4, <1>11
  <2> QED BY <1>2, <1>3, <1>5, <1>7, <1>11, <2>1
<1> QED BY <1>8, <1>9, <1>10, <1>11

LEMMA ListHolds ==
  ASSUME WatchInv, W!ReadList
  PROVE  WatchInv'
<1>1. /\ asking[1] = W!Answered /\ list' = asking[2] /\ screen' = screen /\ runs' = runs
      /\ polled' = polled /\ polling' = polling /\ launch' = launch
      /\ chosen' = W!ActiveOf(list') \/ chosen' = chosen
      /\ W!Effects(<<W!No, <<>>>>, failure)
  BY DEF W!ReadList
<1>2. asking' \in {<<W!No, <<>>>>, <<W!Answered, runs'>>}
  BY <1>1, EffectsAsk
<1>3. /\ runs \in Pictures /\ asking[2] \in Pictures /\ Kept(asking[2], runs)
      /\ chosen \in 0..Len(runs) /\ Kept(runs, runs)
  BY <1>1, Pictured DEF WatchInv
<1>4. chosen' \in 0..Len(runs)
  <2>1. W!ActiveOf(list') \in 0..Len(list')
    <3>1. PICK p \in Pictures : p = list'
      BY <1>1, <1>3
    <3> QED BY <3>1, ActivePictured
  <2>2. Len(list') <= Len(runs) /\ Len(list') \in Nat /\ Len(runs) \in Nat
    BY <1>1, <1>3, Pictured DEF Kept
  <2> QED BY <1>1, <1>3, <2>1, <2>2
<1>5. /\ asking' \in {W!No, W!Answered} \X Pictures
      /\ asking'[1] = W!Answered => asking'[2] = runs
  <2>1. W!No # W!Answered
    BY DEF W!No, W!Answered
  <2> QED BY <1>1, <1>2, <1>3, <2>1, Pictured
<1> QED BY <1>1, <1>3, <1>4, <1>5 DEF WatchInv

(* The steps that leave the list as it is.                                 *)
LEMMA OtherWatchHolds ==
  ASSUME WatchInv, runs' \in Pictures, Kept(runs, runs'), list' = list, screen' = screen,
         asking' \in {<<W!No, <<>>>>, <<W!Answered, runs>>, <<W!Answered, runs'>>, asking},
         polled' \in [W!Ids -> Statuses \cup {W!No}], polling' \in [W!Ids -> Statuses \cup {W!No}],
         chosen' \in 0..Len(runs'), launch' \in {W!No, W!Busy, W!Answered} \X (0..Len(runs')),
         launch'[1] = W!Answered => launch'[2] # 0,
         \A i \in W!Ids : polling'[i] # W!No => polled'[i] # "finished"
  PROVE  WatchInv'
<1>1. /\ asking' \in {W!No, W!Answered} \X Pictures
      /\ Kept(list, runs')
      /\ asking'[1] = W!Answered => Kept(list, asking'[2]) /\ Kept(asking'[2], runs')
  BY AskingHolds
<1> QED BY <1>1 DEF WatchInv

LEMMA StepWatch ==
  ASSUME WatchInv, [W!WatchNext]_W!watch
  PROVE  WatchInv'
<1>1. /\ runs \in Pictures /\ Kept(runs, runs) /\ MaxRuns \in Nat
      /\ polled \in [W!Ids -> Statuses \cup {W!No}] /\ polling \in [W!Ids -> Statuses \cup {W!No}]
      /\ chosen \in 0..Len(runs) /\ launch \in {W!No, W!Busy, W!Answered} \X (0..Len(runs))
      /\ launch[1] = W!Answered => launch[2] # 0
      /\ \A i \in W!Ids : polling[i] # W!No => polled[i] # "finished"
      /\ Len(runs) \in 0..MaxRuns /\ list \in Pictures /\ Kept(list, runs)
      /\ DOMAIN runs = 1..Len(runs) /\ DOMAIN list = 1..Len(list) /\ Len(list) \in Nat
  BY Pictured DEF WatchInv
<1>2. /\ W!No # W!Answered /\ W!Busy # W!Answered /\ 0 \in 0..Len(runs) /\ W!No \notin Statuses
      /\ W!No # "finished" /\ "finished" \in Statuses
      /\ W!First \in Statuses /\ W!First # "finished"
  BY <1>1 DEF W!No, W!Answered, W!Busy, Statuses, W!First
<1>3. <<W!No, 0>> \in {W!No, W!Busy, W!Answered} \X (0..Len(runs)) /\ <<W!No, 0>>[1] = W!No
  BY <1>2
<1>4. CASE W!ReadList
  BY <1>4, ListHolds
<1>5. CASE W!AskList \/ W!ListLost \/ W!Expires \/ W!LaunchLost \/ UNCHANGED W!watch
  <2>1. /\ runs' = runs /\ list' = list /\ screen' = screen /\ polled' = polled
        /\ polling' = polling /\ chosen' = chosen /\ (launch' = launch \/ launch' = <<W!No, 0>>)
        /\ asking' \in {<<W!No, <<>>>>, <<W!Answered, runs>>, asking}
    BY <1>5 DEF W!AskList, W!ListLost, W!Expires, W!LaunchLost, W!watch
  <2> QED BY <1>1, <1>2, <1>3, <2>1, OtherWatchHolds
<1>6. ASSUME NEW i \in W!Ids, W!AskRun(i) PROVE WatchInv'
  <2>1. /\ runs' = runs /\ list' = list /\ screen' = screen /\ polled' = polled
        /\ chosen' = chosen /\ launch' = launch /\ asking' = asking
        /\ polling' = [polling EXCEPT ![i] = runs[i]] /\ W!Asks(i)
    BY <1>6 DEF W!AskRun
  <2>2. polled[i] # "finished"
    BY <2>1 DEF W!Asks, W!Finished
  <2>3. i \in DOMAIN runs
    <3>1. i = W!Shown /\ i # 0
      BY <2>1 DEF W!Asks
    <3>2. W!ActiveOf(list) \in 0..Len(list) /\ Len(list) <= Len(runs)
      BY <1>1, ActivePictured DEF Kept
    <3>3. i \in 0..Len(runs)
      BY <1>1, <3>1, <3>2 DEF W!Shown
    <3> QED BY <1>1, <3>1, <3>3
  <2>4. runs[i] \in Statuses
    BY <1>1, <2>3, Pictured
  <2>5. polling' \in [W!Ids -> Statuses \cup {W!No}]
    BY <1>1, <2>1, <2>4
  <2>6. \A j \in W!Ids : polling'[j] # W!No => polled'[j] # "finished"
    BY <1>1, <2>1, <2>2
  <2> QED BY <1>1, <2>1, <2>5, <2>6, OtherWatchHolds
<1>7. ASSUME NEW i \in W!Ids, W!ReadRun(i) \/ W!RunLost(i) \/ W!RunRefused(i) PROVE WatchInv'
  <2>1. /\ runs' = runs /\ list' = list /\ screen' = screen
        /\ chosen' = chosen /\ launch' = launch
        /\ polling' = [polling EXCEPT ![i] = W!No] /\ polling[i] # W!No
        /\ polled' = polled \/ polled' = [polled EXCEPT ![i] = polling[i]]
    BY <1>7 DEF W!ReadRun, W!RunLost, W!RunRefused
  <2>2. asking' \in {<<W!No, <<>>>>, <<W!Answered, runs'>>, asking}
    <3>1. CASE W!RunLost(i)
      BY <3>1 DEF W!RunLost
    <3>2. CASE W!Effects(asking, failure)
      BY <3>2, EffectsAsk
    <3> QED BY <1>7, <3>1, <3>2 DEF W!ReadRun, W!RunRefused
  <2>3. polling' \in [W!Ids -> Statuses \cup {W!No}] /\ polled' \in [W!Ids -> Statuses \cup {W!No}]
    BY <1>1, <2>1
  <2>4. \A j \in W!Ids : polling'[j] # W!No => polled'[j] # "finished"
    BY <1>1, <2>1
  <2> QED BY <1>1, <2>1, <2>2, <2>3, <2>4, OtherWatchHolds
<1>8. CASE W!Press
  <2>1. /\ list' = list /\ screen' = screen /\ polled' = polled /\ polling' = polling
        /\ asking' = asking /\ (chosen' = chosen \/ chosen' = 0)
        /\ \/ runs' = Append(runs, W!First) /\ launch' = <<W!Answered, Len(runs) + 1>>
           \/ runs' = runs /\ launch' = <<W!Busy, 0>>
    BY <1>8 DEF W!Press
  <2>2. runs' \in Pictures /\ Kept(runs, runs')
    BY <1>8, RunsGoOn
  <2>3. Len(runs') \in Nat /\ Len(runs) <= Len(runs') /\ Len(runs) \in Nat
    BY <1>1, <2>2, Pictured DEF Kept
  <2>4. launch' \in {W!No, W!Busy, W!Answered} \X (0..Len(runs'))
        /\ launch'[1] = W!Answered => launch'[2] # 0
    <3>1. CASE runs' = Append(runs, W!First) /\ launch' = <<W!Answered, Len(runs) + 1>>
      <4>1. runs \in Seq(Statuses)
        BY <1>1 DEF Pictures
      <4>2. Len(runs') = Len(runs) + 1
        BY <3>1, <4>1
      <4> QED BY <2>3, <3>1, <4>2
    <3>2. CASE launch' = <<W!Busy, 0>>
      BY <1>2, <2>3, <3>2
    <3> QED BY <2>1, <3>1, <3>2
  <2>5. chosen' \in 0..Len(runs')
    BY <1>1, <2>1, <2>3
  <2> QED BY <1>1, <2>1, <2>2, <2>4, <2>5, OtherWatchHolds
<1>9. CASE W!Accepted
  <2>1. /\ launch[1] = W!Answered /\ polled' = [polled EXCEPT ![launch[2]] = W!First]
        /\ chosen' = launch[2] /\ launch' = <<W!No, 0>>
        /\ screen' = screen /\ runs' = runs /\ list' = list /\ polling' = polling
        /\ W!Effects(<<W!Answered, runs>>, W!No)
    BY <1>9 DEF W!Accepted
  <2>2. asking' \in {<<W!No, <<>>>>, <<W!Answered, runs'>>, <<W!Answered, runs>>}
    BY <2>1, EffectsAsk
  <2>3. polled' \in [W!Ids -> Statuses \cup {W!No}] /\ chosen' \in 0..Len(runs)
    BY <1>1, <1>2, <2>1
  <2>4. \A j \in W!Ids : polling'[j] # W!No => polled'[j] # "finished"
    BY <1>1, <1>2, <2>1
  <2> QED BY <1>1, <1>2, <1>3, <2>1, <2>2, <2>3, <2>4, OtherWatchHolds
<1>10. CASE W!RefusedBusy
  <2>1. PICK request : /\ W!Effects(request, W!Busy)
                       /\ request = <<W!Answered, runs>> \/ request = asking
    BY <1>10 DEF W!RefusedBusy
  <2>2. /\ launch' = <<W!No, 0>> /\ screen' = screen /\ runs' = runs /\ list' = list
        /\ polled' = polled /\ polling' = polling /\ chosen' = chosen
    BY <1>10 DEF W!RefusedBusy
  <2>3. asking' \in {<<W!No, <<>>>>, <<W!Answered, runs'>>, request}
    BY <2>1, EffectsAsk
  <2> QED BY <1>1, <1>2, <1>3, <2>1, <2>2, <2>3, OtherWatchHolds
<1>11. ASSUME NEW i \in W!Ids, W!Follow(i) PROVE WatchInv'
  <2>1. /\ i \in DOMAIN list /\ chosen' = i /\ screen' = screen /\ runs' = runs /\ list' = list
        /\ polled' = polled /\ polling' = polling /\ launch' = launch
        /\ W!Effects(asking, failure)
    BY <1>11 DEF W!Follow
  <2>2. asking' \in {<<W!No, <<>>>>, <<W!Answered, runs'>>, asking}
    BY <2>1, EffectsAsk
  <2>3. chosen' \in 0..Len(runs)
    <3>1. Len(list) <= Len(runs)
      BY <1>1 DEF Kept
    <3> QED BY <1>1, <2>1, <3>1
  <2> QED BY <1>1, <2>1, <2>2, <2>3, OtherWatchHolds
<1>12. CASE W!OthersStart \/ \E i \in W!Ids : W!RunMoves(i)
  <2>1. /\ screen' = screen /\ list' = list /\ polled' = polled /\ polling' = polling
        /\ chosen' = chosen /\ launch' = launch /\ asking' = asking
    BY <1>12 DEF W!OthersStart, W!RunMoves
  <2>2. runs' \in Pictures /\ Kept(runs, runs')
    BY <1>12, RunsGoOn
  <2>3. Len(runs') \in Nat /\ Len(runs) <= Len(runs') /\ Len(runs) \in Nat
    BY <1>1, <2>2, Pictured DEF Kept
  <2>4. chosen' \in 0..Len(runs') /\ launch' \in {W!No, W!Busy, W!Answered} \X (0..Len(runs'))
    BY <1>1, <2>1, <2>3
  <2> QED BY <1>1, <2>1, <2>2, <2>4, OtherWatchHolds
<1> QED BY <1>4, <1>5, <1>6, <1>7, <1>8, <1>9, <1>10, <1>11, <1>12 DEF W!WatchNext

(* The end of a run that is shown.                                         *)
LEMMA SameStatus ==
  ASSUME list' = list, polled' = polled, screen' = screen, NEW i
  PROVE  W!StatusOf(i)' = W!StatusOf(i)
BY DEF W!StatusOf, W!Settled, W!Listed, W!Finished, W!Running

LEMMA EndStep ==
  ASSUME WatchInv, [W!WatchNext]_W!watch, W!Shown # 0, W!Shown' = W!Shown,
         W!Finished(W!StatusOf(W!Shown)), launch # <<W!Answered, W!Shown>>
  PROVE  W!Finished(W!StatusOf(W!Shown)') \/ runs[W!Shown] = "gone"
<1>1. PICK i : i = W!Shown
  OBVIOUS
<1>2. /\ runs \in Pictures /\ list \in Pictures /\ Kept(list, runs)
      /\ DOMAIN runs = 1..Len(runs) /\ DOMAIN list = 1..Len(list)
      /\ Len(list) \in Nat /\ Len(runs) \in Nat /\ Len(runs) <= MaxRuns /\ MaxRuns \in Nat
      /\ polled \in [W!Ids -> Statuses \cup {W!No}]
      /\ chosen \in 0..Len(runs) /\ launch \in {W!No, W!Busy, W!Answered} \X (0..Len(runs))
      /\ \A j \in W!Ids : polling[j] # W!No => polled[j] # "finished"
  BY Pictured DEF WatchInv
<1>3. i \in W!Ids
  <2>1. W!ActiveOf(list) \in 0..Len(list) /\ Len(list) <= Len(runs)
    BY <1>2, ActivePictured DEF Kept
  <2>2. i \in {chosen, W!ActiveOf(list), Len(list)}
    BY <1>1 DEF W!Shown
  <2>3. i \in 0..Len(runs) /\ i # 0
    <3>1. i # 0
      BY <1>1
    <3>2. {chosen, W!ActiveOf(list), Len(list)} \subseteq 0..Len(runs)
      BY <1>2, <2>1
    <3> QED BY <2>2, <3>1, <3>2
  <2> QED BY <1>2, <2>3 DEF W!Ids
<1>4. \A s : W!Finished(s) <=> s = "finished"
  BY DEF W!Finished
<1>5. W!StatusOf(W!Shown)' = W!StatusOf(i)'
  BY <1>1 DEF W!StatusOf, W!Settled, W!Listed
<1>6. W!StatusOf(i) = "finished" /\ i # 0
  BY <1>1, <1>4
<1>7. CASE list' = list /\ polled' = polled /\ screen' = screen
  BY <1>4, <1>5, <1>6, <1>7, SameStatus
<1>8. CASE W!ReadList
  <2>1. /\ asking[1] = W!Answered /\ list' = asking[2] /\ screen' = screen /\ polled' = polled
    BY <1>8 DEF W!ReadList
  <2>2. Kept(list, list') /\ Kept(list', runs)
    BY <2>1 DEF WatchInv
  <2>3. CASE polled[i] = "finished"
    BY <1>4, <1>5, <1>6, <2>1, <2>3 DEF W!StatusOf, W!Settled, W!Listed, W!No
  <2>4. CASE polled[i] # "finished"
    <3>1. W!Listed(i) = "finished"
      BY <1>4, <1>6, <2>4 DEF W!StatusOf, W!Settled
    <3>2. screen = "replay" /\ i \in DOMAIN list /\ list[i] = "finished"
      BY <3>1 DEF W!Listed, W!Running, W!No, W!Screens, WatchInv
    <3>3. list'[i] = "finished" \/ list'[i] = "gone"
      BY <2>2, <3>2 DEF Kept
    <3>4. i \in DOMAIN list'
      <4>1. PICK p : p = list'
        OBVIOUS
      <4>2. p \in Pictures /\ Len(list) <= Len(p)
        BY <2>1, <2>2, <4>1 DEF WatchInv, Kept
      <4>3. DOMAIN p = 1..Len(p) /\ Len(p) \in Nat
        BY <4>2, Pictured
      <4> QED BY <1>2, <3>2, <4>1, <4>2, <4>3
    <3>5. CASE list'[i] = "finished"
      BY <1>4, <1>5, <1>6, <2>1, <3>2, <3>4, <3>5 DEF W!StatusOf, W!Settled, W!Listed, W!No
    <3>6. CASE list'[i] = "gone"
      BY <1>1, <2>2, <3>4, <3>6 DEF Kept
    <3> QED BY <3>3, <3>5, <3>6
  <2> QED BY <2>3, <2>4
<1>9. ASSUME NEW j \in W!Ids, W!ReadRun(j)
      PROVE  W!StatusOf(i)' = "finished"
  <2>1. /\ list' = list /\ screen' = screen /\ polling[j] # W!No
        /\ polled' = polled \/ polled' = [polled EXCEPT ![j] = polling[j]]
    BY <1>9 DEF W!ReadRun
  <2>2. W!Settled(i)' = W!Settled(i) /\ W!Listed(i)' = W!Listed(i)
    BY <2>1 DEF W!Settled, W!Listed, W!Finished, W!Running
  <2>3. CASE W!Settled(i)
    BY <1>6, <2>2, <2>3 DEF W!StatusOf
  <2>4. CASE ~W!Settled(i)
    <3>1. polled[i] = "finished"
      <4>1. W!Listed(i) # "finished"
        BY <1>4, <2>4 DEF W!Settled, W!Listed, W!No, W!Running, WatchInv, W!Screens
      <4> QED BY <1>6, <2>4, <4>1 DEF W!StatusOf
    <3>2. i # j
      BY <1>2, <2>1, <3>1
    <3>3. polled'[i] = "finished"
      BY <1>2, <1>3, <2>1, <3>1, <3>2
    <3> QED BY <1>6, <2>2, <2>4, <3>3 DEF W!StatusOf, W!No
  <2> QED BY <2>3, <2>4
<1>10. CASE W!Accepted
  <2>1. /\ launch[1] = W!Answered /\ polled' = [polled EXCEPT ![launch[2]] = W!First]
        /\ chosen' = launch[2] /\ list' = list /\ screen' = screen
    BY <1>10 DEF W!Accepted
  <2>2. launch[2] # i
    BY <1>1, <1>2, <2>1
  <2>3. launch[2] # 0
    BY <2>1 DEF WatchInv
  <2>4. W!Shown' = launch[2]
    BY <2>1, <2>3 DEF W!Shown
  <2> QED BY <1>1, <2>2, <2>4
<1>11. CASE \E j \in W!Ids : W!ReadRun(j)
  BY <1>4, <1>5, <1>9, <1>11
<1>12. CASE \/ W!AskList \/ W!ListLost \/ W!Expires \/ W!LaunchLost \/ UNCHANGED W!watch
            \/ W!Press \/ W!RefusedBusy \/ W!OthersStart
  BY <1>7, <1>12 DEF W!AskList, W!ListLost, W!Expires, W!LaunchLost, W!watch, W!Press,
                     W!RefusedBusy, W!OthersStart
<1>13. ASSUME NEW j \in W!Ids, \/ W!AskRun(j) \/ W!RunLost(j) \/ W!RunRefused(j)
                               \/ W!Follow(j) \/ W!RunMoves(j)
       PROVE  list' = list /\ polled' = polled /\ screen' = screen
  BY <1>13 DEF W!AskRun, W!RunLost, W!RunRefused, W!Follow, W!RunMoves
<1> QED BY <1>7, <1>8, <1>10, <1>11, <1>12, <1>13 DEF W!WatchNext
-------------------------------------------------------------------------------
(* The elements of a finite set in an order: a relation as a set of pairs. *)
Under(D, R, x) == {y \in D : <<y, x>> \in R}
Ranking(D, R) ==
  /\ IsFiniteSet(D)
  /\ \A x \in D : <<x, x>> \notin R
  /\ \A x, y \in D : x # y => <<x, y>> \in R \/ <<y, x>> \in R
  /\ \A x, y, z \in D : <<x, y>> \in R /\ <<y, z>> \in R => <<x, z>> \in R

LEMMA Ranked ==
  ASSUME NEW D, NEW R, Ranking(D, R)
  PROVE  /\ Cardinality(D) \in Nat
         /\ \A x \in D : Cardinality(Under(D, R, x)) + 1 \in 1..Cardinality(D)
         /\ \A x, y \in D : <<x, y>> \in R =>
              Cardinality(Under(D, R, x)) < Cardinality(Under(D, R, y))
         /\ \A x, y \in D : Cardinality(Under(D, R, x)) = Cardinality(Under(D, R, y)) => x = y
         /\ \A n \in 1..Cardinality(D) : \E x \in D : Cardinality(Under(D, R, x)) + 1 = n
<1>1. IsFiniteSet(D) /\ Cardinality(D) \in Nat
  BY FS_CardinalityType DEF Ranking
<1>2. ASSUME NEW T \in SUBSET D, T # D
      PROVE  Cardinality(T) \in Nat /\ Cardinality(T) < Cardinality(D)
  <2>1. IsFiniteSet(T) /\ Cardinality(T) <= Cardinality(D) /\ Cardinality(D) # Cardinality(T)
    BY <1>1, <1>2, FS_Subset
  <2> QED BY <1>1, <2>1, FS_CardinalityType
<1>3. \A x \in D : Under(D, R, x) \subseteq D /\ x \notin Under(D, R, x)
  BY DEF Under, Ranking
<1>4. \A x \in D : Cardinality(Under(D, R, x)) \in Nat
                   /\ Cardinality(Under(D, R, x)) + 1 \in 1..Cardinality(D)
  <2> SUFFICES ASSUME NEW x \in D
               PROVE  Cardinality(Under(D, R, x)) \in Nat
                      /\ Cardinality(Under(D, R, x)) + 1 \in 1..Cardinality(D)
    OBVIOUS
  <2>1. Under(D, R, x) \in SUBSET D /\ Under(D, R, x) # D
    BY <1>3
  <2>2. Cardinality(Under(D, R, x)) \in Nat /\ Cardinality(Under(D, R, x)) < Cardinality(D)
    BY <1>2, <2>1
  <2> QED BY <1>1, <2>2
<1>5. ASSUME NEW x \in D, NEW y \in D, <<x, y>> \in R
      PROVE  Cardinality(Under(D, R, x)) < Cardinality(Under(D, R, y))
  <2>1. Under(D, R, x) \subseteq Under(D, R, y) /\ x \in Under(D, R, y)
    BY <1>5 DEF Under, Ranking
  <2>2. Under(D, R, x) # Under(D, R, y)
    BY <1>3, <2>1
  <2>3. IsFiniteSet(Under(D, R, y))
    BY <1>1, <1>3, FS_Subset
  <2>4. /\ Cardinality(Under(D, R, x)) <= Cardinality(Under(D, R, y))
        /\ Cardinality(Under(D, R, y)) # Cardinality(Under(D, R, x))
    BY <2>1, <2>2, <2>3, FS_Subset
  <2> QED BY <1>4, <2>4
<1>6. ASSUME NEW x \in D, NEW y \in D,
             Cardinality(Under(D, R, x)) = Cardinality(Under(D, R, y))
      PROVE  x = y
  <2>1. <<x, y>> \notin R /\ <<y, x>> \notin R
    BY <1>4, <1>5, <1>6
  <2> QED BY <2>1 DEF Ranking
<1>7. \A n \in 1..Cardinality(D) : \E x \in D : Cardinality(Under(D, R, x)) + 1 = n
  <2> DEFINE T == 1..Cardinality(D)
             f == [x \in D |-> Cardinality(Under(D, R, x)) + 1]
  <2>1. f \in [D -> T]
    BY <1>4
  <2>2. \A x, y \in D : f[x] = f[y] => x = y
    BY <1>4, <1>6
  <2>3. f \in Injection(D, T)
    BY <2>1, <2>2 DEF Injection, IsInjective
  <2>4. IsFiniteSet(T) /\ Cardinality(T) = Cardinality(D)
    <3>1. 1 \in Int /\ Cardinality(D) \in Int
      BY <1>1
    <3>2. IsFiniteSet(T)
          /\ Cardinality(T) = IF 1 > Cardinality(D) THEN 0 ELSE Cardinality(D) - 1 + 1
      BY <3>1, FS_Interval
    <3> QED BY <1>1, <3>2
  <2> HIDE DEF f, T
  <2>5. f \in Surjection(D, T)
    BY <2>3, <2>4, FS_Injection
  <2>6. \A n \in T : \E x \in D : f[x] = n
    BY <2>5 DEF Surjection
  <2> QED BY <2>6 DEF f, T
<1> QED BY <1>1, <1>4, <1>5, <1>6, <1>7

-------------------------------------------------------------------------------
(* The feed: whatever it was read, patched, put back or re-read to, it     *)
(* shows episodes of the table only, and of those that stood in the table  *)
(* none is missing that its pages have reached.                            *)
People == {"nobody", "me", "other"}
EpisodeRows == [at : Nat, active : BOOLEAN, acked : People]
Rows == [id : Episodes, active : BOOLEAN, acked : People]
Cursors == {<<>>} \cup (Nat \X Episodes)
Pages == [items : Seq(Rows), next : Cursors]
Feeds == [pages : Seq(Pages), stood : SUBSET Episodes]

FitsBy(state, active) == (state = "active" => active) /\ (state = "cleared" => ~active)
Holds(page, id) == \E k \in DOMAIN page.items : page.items[k].id = id
Shows(f, id) == \E n \in DOMAIN f.pages : Holds(f.pages[n], id)
Reached(next, at, id) == next = <<>> \/ ~F!Before(next, <<at, id>>)

Good(f, rows, state) ==
  /\ f \in Feeds /\ (f.pages = <<>> => f.stood = {})
  /\ \A id \in f.stood : rows[id].at > 0
  /\ \A id \in Episodes : Shows(f, id) => rows[id].at > 0
  /\ state # "cleared" => \A id \in f.stood :
       FitsBy(state, rows[id].active) /\ Reached(F!LastPage(f).next, rows[id].at, id)
         => Shows(f, id)

TableInv ==
  /\ episode \in [Episodes -> EpisodeRows]
  /\ \A id \in Episodes : episode[id].at = 0 => ~episode[id].active /\ episode[id].acked = "nobody"
  /\ frames \in Seq([id : Episodes, active : BOOLEAN])
  /\ \A n \in DOMAIN frames :
       /\ episode[frames[n].id].at > 0
       /\ episode[frames[n].id].active => frames[n].active

FetchInv ==
  /\ fetch \in [kind : {"none", "refetch", "more"}, old : Feeds, got : Feeds, left : Nat,
                cursor : Cursors]
  /\ Good(fetch.old, episode, filter) /\ Good(fetch.got, episode, filter)
  /\ fetch.got.pages = <<>> => fetch.cursor = <<>>
  /\ fetch.got.pages # <<>> => fetch.cursor = F!LastPage(fetch.got).next
  /\ fetch.got.pages # <<>> /\ fetch.left > 0 => fetch.cursor # <<>>

MarksInv ==
  /\ marks \in [Episodes -> [at : {"none", "sent", "answer"}, snapshot : Feeds, row : EpisodeRows]]
  /\ \A id \in Episodes : /\ Good(marks[id].snapshot, episode, filter)
                          /\ marks[id].at = "sent" => episode[id].at > 0

FeedInv == TableInv /\ filter \in Filters /\ Good(feed, episode, filter) /\ FetchInv /\ MarksInv

-------------------------------------------------------------------------------
LEMMA SameSize == \A X : F!Cardinality(X) = Cardinality(X)
BY DEF F!Cardinality, Cardinality

LEMMA FeedNumbers ==
  /\ PageSize \in Nat \ {0} /\ IsFiniteSet(Episodes) /\ Episodes \subseteq Nat
  /\ Moments \subseteq Nat \ {0}
BY EndsAssumption DEF EndsAssumption

(* A page: rows of the table, and every row that was looked for is on it   *)
(* or behind its last.                                                     *)
LEMMA PageDoes ==
  ASSUME NEW ids \in SUBSET Episodes, NEW page, page = F!PageOf(ids),
         episode \in [Episodes -> EpisodeRows]
  PROVE  /\ page \in Pages
         /\ \A id \in Episodes : Holds(page, id) => id \in ids
         /\ \A id \in ids : Reached(page.next, episode[id].at, id) => Holds(page, id)
<1> DEFINE R == {p \in ids \X ids : F!Before(F!Position(p[1]), F!Position(p[2]))}
           count == F!Cardinality(ids)
           found == IF count > PageSize THEN PageSize ELSE count
           order == [n \in 1..found |-> CHOOSE id \in ids : F!Place(id, ids) = n]
<1>1. \A id \in ids : episode[id].at \in Nat /\ id \in Nat
  BY FeedNumbers DEF EpisodeRows
<1>2. \A x, y \in ids : <<x, y>> \in R <=>
        episode[x].at > episode[y].at \/ (episode[x].at = episode[y].at /\ x > y)
  BY DEF F!Before, F!Position
<1>3. Ranking(ids, R)
  <2>1. IsFiniteSet(ids)
    BY FeedNumbers, FS_Subset
  <2> HIDE DEF R
  <2>2. \A x \in ids : <<x, x>> \notin R
    BY <1>1, <1>2
  <2>3. \A x, y \in ids : x # y => <<x, y>> \in R \/ <<y, x>> \in R
    BY <1>1, <1>2
  <2>4. \A x, y, z \in ids : <<x, y>> \in R /\ <<y, z>> \in R => <<x, z>> \in R
    BY <1>1, <1>2
  <2> QED BY <2>1, <2>2, <2>3, <2>4 DEF Ranking
<1>4. \A id \in ids : F!Place(id, ids) = Cardinality(Under(ids, R, id)) + 1
  <2> SUFFICES ASSUME NEW id \in ids
               PROVE  F!Place(id, ids) = Cardinality(Under(ids, R, id)) + 1
    OBVIOUS
  <2>1. Under(ids, R, id) = {other \in ids : F!Before(F!Position(other), F!Position(id))}
    BY DEF Under
  <2>2. PICK X : X = {other \in ids : F!Before(F!Position(other), F!Position(id))}
    OBVIOUS
  <2>3. F!Place(id, ids) = F!Cardinality(X) + 1
    BY <2>2 DEF F!Place
  <2> HIDE DEF R
  <2> QED BY <2>1, <2>2, <2>3, SameSize
<1> HIDE DEF R
<1>0. count = Cardinality(ids)
  BY SameSize
<1>5. /\ count \in Nat
      /\ \A x \in ids : F!Place(x, ids) \in 1..count
      /\ \A x, y \in ids : <<x, y>> \in R => F!Place(x, ids) < F!Place(y, ids)
      /\ \A x, y \in ids : F!Place(x, ids) = F!Place(y, ids) => x = y
      /\ \A n \in 1..count : \E x \in ids : F!Place(x, ids) = n
  <2>1. /\ count \in Nat
        /\ \A x \in ids : Cardinality(Under(ids, R, x)) + 1 \in 1..count
        /\ \A x, y \in ids : <<x, y>> \in R =>
             Cardinality(Under(ids, R, x)) < Cardinality(Under(ids, R, y))
        /\ \A x, y \in ids : Cardinality(Under(ids, R, x)) = Cardinality(Under(ids, R, y)) => x = y
        /\ \A n \in 1..count : \E x \in ids : Cardinality(Under(ids, R, x)) + 1 = n
    BY <1>0, <1>3, Ranked
  <2>2. \A x \in ids : Cardinality(Under(ids, R, x)) \in Int
    <3> TAKE x \in ids
    <3>1. IsFiniteSet(Under(ids, R, x))
      BY FeedNumbers, FS_Subset DEF Under
    <3> QED BY <3>1, FS_CardinalityType
  <2> QED BY <1>4, <2>1, <2>2
<1>6. found \in 0..count /\ (count > PageSize => found = PageSize /\ found \in 1..count)
      /\ (~(count > PageSize) => found = count)
  BY <1>5, FeedNumbers
<1>7. page = [items |-> [n \in 1..found |-> F!Row(order[n])],
              next |-> IF count > PageSize THEN F!Position(order[found]) ELSE <<>>]
  BY DEF F!PageOf, F!NoCursor
<1> HIDE DEF found, count
<1>8. \A n \in 1..found : order[n] \in ids /\ F!Place(order[n], ids) = n
  <2> SUFFICES ASSUME NEW n \in 1..found
               PROVE  order[n] \in ids /\ F!Place(order[n], ids) = n
    OBVIOUS
  <2>1. \E x \in ids : F!Place(x, ids) = n
    BY <1>5, <1>6
  <2> QED BY <2>1
<1> HIDE DEF order
<1>9. \A n \in 1..found : F!Row(order[n]) \in Rows /\ F!Row(order[n]).id = order[n]
  <2> SUFFICES ASSUME NEW n \in 1..found
               PROVE  F!Row(order[n]) \in Rows /\ F!Row(order[n]).id = order[n]
    OBVIOUS
  <2>1. order[n] \in Episodes /\ episode[order[n]] \in EpisodeRows
    BY <1>8
  <2> QED BY <2>1 DEF F!Row, Rows, EpisodeRows
<1>10. /\ page.items \in Seq(Rows) /\ DOMAIN page.items = 1..found
       /\ \A n \in 1..found : page.items[n].id = order[n]
  <2>1. page.items = [n \in 1..found |-> F!Row(order[n])]
    BY <1>7
  <2>2. found \in Nat
    BY <1>5, <1>6
  <2> QED BY <1>9, <2>1, <2>2
<1>11. /\ count > PageSize => page.next = F!Position(order[found]) /\ page.next \in Nat \X Episodes
       /\ ~(count > PageSize) => page.next = <<>>
  <2>1. ASSUME count > PageSize PROVE F!Position(order[found]) \in Nat \X Episodes
    <3>1. order[found] \in ids
      BY <1>6, <1>8, <2>1
    <3> QED BY <1>1, <3>1 DEF F!Position
  <2> QED BY <1>7, <2>1
<1>12. page \in Pages
  <2>1. page = [items |-> page.items, next |-> page.next]
    BY <1>7
  <2> QED BY <1>10, <1>11, <2>1 DEF Pages, Cursors
<1>13. \A id \in Episodes : Holds(page, id) => id \in ids
  BY <1>8, <1>10 DEF Holds
<1>14. ASSUME NEW id \in ids, Reached(page.next, episode[id].at, id)
       PROVE  Holds(page, id)
  <2>1. CASE F!Place(id, ids) \in 1..found
    <3>1. order[F!Place(id, ids)] = id
      BY <1>5, <1>8, <2>1
    <3> QED BY <1>10, <2>1, <3>1 DEF Holds
  <2>2. CASE F!Place(id, ids) \notin 1..found
    <3>1. count > PageSize /\ F!Place(id, ids) > found /\ found \in 1..count /\ found \in 1..found
      BY <1>5, <1>6, <2>2
    <3>2. PICK x \in ids : x = order[found] /\ F!Place(x, ids) = found
      BY <1>8, <3>1
    <3>3. x # id /\ <<id, x>> \notin R
      BY <1>5, <1>6, <3>1, <3>2
    <3>4. <<x, id>> \in R
      BY <1>3, <3>3 DEF Ranking
    <3>5. page.next = <<episode[x].at, x>> /\ page.next # <<>>
      <4>1. page.next = <<episode[x].at, x>>
        BY <1>11, <3>1, <3>2 DEF F!Position
      <4>2. Len(<<episode[x].at, x>>) = 2 /\ Len(<<>>) = 0
        OBVIOUS
      <4> QED BY <4>1, <4>2
    <3>6. F!Before(<<episode[x].at, x>>, <<episode[id].at, id>>)
      BY <1>2, <3>4 DEF F!Before
    <3> QED BY <1>14, <3>5, <3>6 DEF Reached
  <2> QED BY <2>1, <2>2
<1> QED BY <1>12, <1>13, <1>14

(* The rows but those of one episode keep their episodes.                  *)
LEMMA WithoutDoes ==
  ASSUME NEW items \in Seq(Rows), NEW id, NEW left, left = F!Without(items, id)
  PROVE  /\ left \in Seq(Rows)
         /\ \A n \in DOMAIN left : \E k \in DOMAIN items : left[n] = items[k]
         /\ \A k \in DOMAIN items : items[k].id # id => \E n \in DOMAIN left : left[n] = items[k]
<1> DEFINE kept == {k \in DOMAIN items : items[k].id # id}
           R == {p \in kept \X kept : p[1] < p[2]}
           count == F!Cardinality(kept)
           place(k) == F!Cardinality({j \in kept : j < k}) + 1
<1>1. IsFiniteSet(kept) /\ kept \subseteq Nat /\ DOMAIN items \subseteq Nat
  <2>1. Len(items) \in Nat /\ DOMAIN items = 1..Len(items)
    OBVIOUS
  <2>2. IsFiniteSet(1..Len(items))
    BY <2>1, FS_Interval
  <2> QED BY <2>1, <2>2, FS_Subset
<1>2. \A x, y \in kept : <<x, y>> \in R <=> x < y
  OBVIOUS
<1>3. \A k \in kept : place(k) = Cardinality(Under(kept, R, k)) + 1
  <2> SUFFICES ASSUME NEW k \in kept PROVE place(k) = Cardinality(Under(kept, R, k)) + 1
    OBVIOUS
  <2>1. PICK X : X = {j \in kept : j < k}
    OBVIOUS
  <2>2. Under(kept, R, k) = X
    BY <2>1 DEF Under
  <2>3. place(k) = F!Cardinality(X) + 1
    BY <2>1
  <2> HIDE DEF place, R
  <2> QED BY <2>2, <2>3, SameSize
<1>4. left = [n \in 1..count |-> items[CHOOSE k \in kept : place(k) = n]]
  BY DEF F!Without
<1>5. \A k \in kept : k \in DOMAIN items
  OBVIOUS
<1>0. \A k \in DOMAIN items : items[k].id # id => k \in kept
  OBVIOUS
<1> HIDE DEF R, kept
<1>6. Ranking(kept, R)
  BY <1>1, <1>2 DEF Ranking
<1>7. /\ count \in Nat
      /\ \A x \in kept : Cardinality(Under(kept, R, x)) + 1 \in 1..count
      /\ \A x, y \in kept : Cardinality(Under(kept, R, x)) = Cardinality(Under(kept, R, y)) => x = y
      /\ \A n \in 1..count : \E x \in kept : Cardinality(Under(kept, R, x)) + 1 = n
  BY <1>6, Ranked, SameSize
<1>8. \A x \in kept : Cardinality(Under(kept, R, x)) \in Int
  <2> TAKE x \in kept
  <2>1. IsFiniteSet(Under(kept, R, x))
    BY <1>1, FS_Subset DEF Under
  <2> QED BY <2>1, FS_CardinalityType
<1> HIDE DEF place
<1>9. /\ \A x \in kept : place(x) \in 1..count
      /\ \A x, y \in kept : place(x) = place(y) => x = y
      /\ \A n \in 1..count : \E x \in kept : place(x) = n
  BY <1>3, <1>7, <1>8
<1> HIDE DEF count
<1>10. \A n \in 1..count : /\ (CHOOSE k \in kept : place(k) = n) \in kept
                           /\ place(CHOOSE k \in kept : place(k) = n) = n
  BY <1>9
<1>11. DOMAIN left = 1..count /\ \A n \in 1..count : \E k \in kept : place(k) = n /\ left[n] = items[k]
  BY <1>4, <1>10
<1>12. \A n \in DOMAIN left : \E k \in DOMAIN items : left[n] = items[k]
  BY <1>5, <1>11
<1>13. ASSUME NEW k \in DOMAIN items, items[k].id # id
       PROVE  \E n \in DOMAIN left : left[n] = items[k]
  <2>1. k \in kept /\ place(k) \in 1..count
    BY <1>0, <1>9, <1>13
  <2>2. PICK j \in kept : place(j) = place(k) /\ left[place(k)] = items[j]
    BY <1>11, <2>1
  <2>3. j = k
    BY <1>9, <2>1, <2>2
  <2> QED BY <1>11, <2>1, <2>2, <2>3
<1>14. left \in Seq(Rows)
  <2>1. \A k \in DOMAIN items : items[k] \in Rows
    OBVIOUS
  <2>2. \A n \in 1..count : left[n] \in Rows
    BY <1>11, <1>12, <2>1
  <2>3. left = [n \in 1..count |-> left[n]]
    BY <1>4
  <2> QED BY <1>7, <2>2, <2>3 DEF count
<1> QED BY <1>12, <1>13, <1>14

(* The table changes by raising, clearing and acknowledging: what stood in *)
(* it still stands where it stood.                                         *)
LEMMA StillGood ==
  ASSUME NEW f, NEW rows, NEW after, NEW state, Good(f, rows, state),
         \A id \in Episodes : rows[id].at > 0 =>
           after[id].at = rows[id].at /\ (after[id].active => rows[id].active)
  PROVE  Good(f, after, state)
<1>1. \A id \in f.stood : id \in Episodes
  BY DEF Good, Feeds
<1>2. ASSUME NEW id \in f.stood, state # "cleared", FitsBy(state, after[id].active)
      PROVE  FitsBy(state, rows[id].active)
  BY <1>1, <1>2 DEF FitsBy, Good
<1> QED BY <1>1, <1>2 DEF Good

(* A feed with other rows on pages that end where they ended.              *)
LEMMA Reshaped ==
  ASSUME NEW f, NEW g, NEW rows, NEW state, Good(f, rows, state), g \in Feeds,
         g.stood = f.stood, Len(g.pages) = Len(f.pages),
         f.pages # <<>> => F!LastPage(g).next = F!LastPage(f).next,
         \A id \in Episodes : Shows(g, id) => rows[id].at > 0,
         state # "cleared" =>
           \A id \in f.stood : FitsBy(state, rows[id].active) /\ Shows(f, id) => Shows(g, id)
  PROVE  Good(g, rows, state)
<1>1. f.pages \in Seq(Pages) /\ g.pages \in Seq(Pages)
  BY DEF Good, Feeds
<1>2. f.pages = <<>> <=> g.pages = <<>>
  BY <1>1
<1>3. f.pages = <<>> => f.stood = {}
  BY DEF Good
<1> QED BY <1>2, <1>3 DEF Good

(* The rows of a feed are changed by a function that keeps their episodes. *)
Over(f, r) ==
  [f EXCEPT !.pages = [n \in DOMAIN f.pages |->
     [f.pages[n] EXCEPT !.items = [k \in DOMAIN f.pages[n].items |-> r[f.pages[n].items[k]]]]]]

LEMMA FeedParts ==
  ASSUME NEW f \in Feeds
  PROVE  /\ f.pages \in Seq(Pages) /\ f = [pages |-> f.pages, stood |-> f.stood]
         /\ \A n \in DOMAIN f.pages :
              /\ f.pages[n] \in Pages /\ f.pages[n].items \in Seq(Rows)
              /\ f.pages[n] = [items |-> f.pages[n].items, next |-> f.pages[n].next]
              /\ \A k \in DOMAIN f.pages[n].items : f.pages[n].items[k] \in Rows
<1>1. f.pages \in Seq(Pages) /\ f = [pages |-> f.pages, stood |-> f.stood]
  BY DEF Feeds
<1>2. ASSUME NEW n \in DOMAIN f.pages
      PROVE  /\ f.pages[n] \in Pages /\ f.pages[n].items \in Seq(Rows)
             /\ f.pages[n] = [items |-> f.pages[n].items, next |-> f.pages[n].next]
             /\ \A k \in DOMAIN f.pages[n].items : f.pages[n].items[k] \in Rows
  <2>1. f.pages[n] \in Pages
    BY <1>1
  <2>2. f.pages[n].items \in Seq(Rows)
    BY <2>1 DEF Pages
  <2>3. \A k \in DOMAIN f.pages[n].items : f.pages[n].items[k] \in Rows
    BY <2>2
  <2> QED BY <2>1, <2>2, <2>3 DEF Pages
<1> QED BY <1>1, <1>2

LEMMA OverKeeps ==
  ASSUME NEW f, NEW rows, NEW state, Good(f, rows, state),
         NEW r \in [Rows -> Rows], \A entry \in Rows : r[entry].id = entry.id,
         NEW g, g = Over(f, r)
  PROVE  Good(g, rows, state)
<1>1. f \in Feeds
  BY DEF Good
<1>2. DOMAIN f.pages = 1..Len(f.pages) /\ Len(f.pages) \in Nat
  BY <1>1, FeedParts
<1>3. /\ g = [pages |-> g.pages, stood |-> f.stood]
      /\ g.pages = [n \in DOMAIN f.pages |->
           [f.pages[n] EXCEPT !.items = [k \in DOMAIN f.pages[n].items |-> r[f.pages[n].items[k]]]]]
  <2>1. PICK new : new = [n \in DOMAIN f.pages |->
           [f.pages[n] EXCEPT !.items = [k \in DOMAIN f.pages[n].items |-> r[f.pages[n].items[k]]]]]
    OBVIOUS
  <2>2. g = [f EXCEPT !.pages = new]
    BY <2>1 DEF Over
  <2>3. f = [pages |-> f.pages, stood |-> f.stood]
    BY <1>1, FeedParts
  <2>4. g = [pages |-> new, stood |-> f.stood]
    BY ONLY <2>2, <2>3
  <2> QED BY <2>1, <2>4
<1>4. ASSUME NEW n \in DOMAIN f.pages
      PROVE  /\ g.pages[n] \in Pages /\ g.pages[n].next = f.pages[n].next
             /\ DOMAIN g.pages[n].items = DOMAIN f.pages[n].items
             /\ \A k \in DOMAIN f.pages[n].items :
                  g.pages[n].items[k].id = f.pages[n].items[k].id
  <2>1. /\ f.pages[n].items \in Seq(Rows) /\ f.pages[n] \in Pages
        /\ f.pages[n] = [items |-> f.pages[n].items, next |-> f.pages[n].next]
        /\ \A k \in DOMAIN f.pages[n].items : f.pages[n].items[k] \in Rows
    BY <1>1, FeedParts
  <2>2. PICK new : new = [k \in DOMAIN f.pages[n].items |-> r[f.pages[n].items[k]]]
    OBVIOUS
  <2>3. g.pages[n] = [items |-> new, next |-> f.pages[n].next]
    BY <1>3, <2>1, <2>2
  <2>4. \A k \in DOMAIN f.pages[n].items : new[k] \in Rows /\ new[k].id = f.pages[n].items[k].id
    BY <2>1, <2>2
  <2>5. new \in Seq(Rows)
    <3>1. PICK len \in Nat : DOMAIN f.pages[n].items = 1..len
      BY <2>1
    <3>2. new \in [1..len -> Rows]
      BY <2>2, <2>4, <3>1
    <3> QED BY <3>2
  <2>6. f.pages[n].next \in Cursors
    BY <2>1 DEF Pages
  <2>7. PICK p, q, items, next : p = g.pages[n] /\ q = f.pages[n] /\ items = q.items /\ next = q.next
    OBVIOUS
  <2>8. /\ p = [items |-> new, next |-> next] /\ new \in Seq(Rows) /\ next \in Cursors
        /\ DOMAIN new = DOMAIN items
    BY <2>2, <2>3, <2>5, <2>6, <2>7
  <2>9. p \in Pages /\ p.next = next /\ p.items = new
    BY ONLY <2>8 DEF Pages
  <2>10. \A k \in DOMAIN items : p.items[k].id = items[k].id
    BY <2>4, <2>7, <2>9
  <2> QED BY <2>7, <2>8, <2>9, <2>10
<1>5. DOMAIN g.pages = DOMAIN f.pages /\ g.pages \in Seq(Pages) /\ Len(g.pages) = Len(f.pages)
  <2>1. PICK p, len : p = g.pages /\ len = Len(f.pages)
    OBVIOUS
  <2>2. p \in [1..len -> Pages] /\ len \in Nat
    <3>1. p = [n \in 1..len |-> p[n]]
      BY <1>2, <1>3, <2>1
    <3> QED BY <1>2, <1>4, <2>1, <3>1
  <2>3. p \in Seq(Pages) /\ Len(p) = len /\ DOMAIN p = 1..len
    BY ONLY <2>2
  <2> QED BY <1>2, <2>1, <2>3
<1>6. g \in Feeds /\ g.stood = f.stood
  <2>1. f.stood \in SUBSET Episodes
    BY <1>1 DEF Feeds
  <2>2. PICK p, x : p = g.pages /\ x = f.stood
    OBVIOUS
  <2>3. g = [pages |-> p, stood |-> x] /\ p \in Seq(Pages) /\ x \in SUBSET Episodes
    BY <1>3, <1>5, <2>1, <2>2
  <2>4. g \in Feeds /\ g.stood = x
    BY ONLY <2>3 DEF Feeds
  <2> QED BY <2>2, <2>4
<1>7. \A id \in Episodes : Shows(g, id) <=> Shows(f, id)
  BY <1>4, <1>5 DEF Shows, Holds
<1>8. f.pages # <<>> => F!LastPage(g).next = F!LastPage(f).next
  <2> SUFFICES ASSUME f.pages # <<>> PROVE F!LastPage(g).next = F!LastPage(f).next
    OBVIOUS
  <2>1. Len(f.pages) \in DOMAIN f.pages
    BY <1>2, <1>1, FeedParts
  <2> QED BY <1>4, <1>5, <2>1 DEF F!LastPage
<1>9. \A id \in Episodes : Shows(g, id) => rows[id].at > 0
  BY <1>7 DEF Good
<1>10. \A id \in f.stood : Shows(f, id) => Shows(g, id)
  BY <1>1, <1>7 DEF Feeds
<1> QED BY <1>5, <1>6, <1>8, <1>9, <1>10, Reshaped

(* A row is marked, patched or replaced by the answer.                     *)
LEMMA MarkedGood ==
  ASSUME NEW f, NEW rows, NEW state, Good(f, rows, state), NEW id, NEW person \in People
  PROVE  Good(F!Marked(f, id, person), rows, state)
<1>1. PICK r : r = [entry \in Rows |-> IF entry.id = id THEN [entry EXCEPT !.acked = person] ELSE entry]
  OBVIOUS
<1>2. r \in [Rows -> Rows] /\ \A entry \in Rows : r[entry].id = entry.id
  BY <1>1 DEF Rows
<1>3. F!Marked(f, id, person) = Over(f, r)
  <2>1. f \in Feeds
    BY DEF Good
  <2>2. \A n \in DOMAIN f.pages : \A k \in DOMAIN f.pages[n].items : f.pages[n].items[k] \in Rows
    BY <2>1, FeedParts
  <2> QED BY <1>1, <2>2 DEF F!Marked, F!ItemsOf, Over
<1> QED BY <1>2, <1>3, OverKeeps

LEMMA PatchedGood ==
  ASSUME NEW f, NEW rows, NEW state, Good(f, rows, state), NEW id, NEW active \in BOOLEAN, NEW r,
         r = [entry \in Rows |-> IF entry.id = id THEN [entry EXCEPT !.active = active] ELSE entry]
  PROVE  Good(Over(f, r), rows, state)
<1>1. r \in [Rows -> Rows] /\ \A entry \in Rows : r[entry].id = entry.id
  BY DEF Rows
<1> QED BY <1>1, OverKeeps

LEMMA AnsweredGood ==
  ASSUME NEW f, NEW rows, NEW state, Good(f, rows, state), NEW id \in Episodes,
         NEW active \in BOOLEAN, NEW person \in People, NEW r,
         r = [entry \in Rows |-> IF entry.id = id
                THEN [id |-> id, active |-> active, acked |-> person] ELSE entry]
  PROVE  Good(Over(f, r), rows, state)
<1>1. r \in [Rows -> Rows] /\ \A entry \in Rows : r[entry].id = entry.id
  BY DEF Rows
<1> QED BY <1>1, OverKeeps

(* An episode that fits no more leaves the feed.                           *)
Cleaned(f, id) ==
  [f EXCEPT !.pages = [n \in DOMAIN f.pages |->
     [f.pages[n] EXCEPT !.items = F!Without(f.pages[n].items, id)]]]

LEMMA CleanedGood ==
  ASSUME NEW f, NEW rows, NEW state, Good(f, rows, state), NEW id,
         state # "cleared" => ~FitsBy(state, rows[id].active), NEW g, g = Cleaned(f, id)
  PROVE  Good(g, rows, state)
<1>1. f \in Feeds
  BY DEF Good
<1>2. DOMAIN f.pages = 1..Len(f.pages) /\ Len(f.pages) \in Nat
  BY <1>1, FeedParts
<1>3. /\ g = [pages |-> g.pages, stood |-> f.stood]
      /\ g.pages = [n \in DOMAIN f.pages |->
           [f.pages[n] EXCEPT !.items = F!Without(f.pages[n].items, id)]]
  <2>1. PICK new : new = [n \in DOMAIN f.pages |->
           [f.pages[n] EXCEPT !.items = F!Without(f.pages[n].items, id)]]
    OBVIOUS
  <2>2. g = [f EXCEPT !.pages = new]
    BY <2>1 DEF Cleaned
  <2>3. f = [pages |-> f.pages, stood |-> f.stood]
    BY <1>1, FeedParts
  <2>4. g = [pages |-> new, stood |-> f.stood]
    BY ONLY <2>2, <2>3
  <2> QED BY <2>1, <2>4
<1>4. ASSUME NEW n \in DOMAIN f.pages
      PROVE  /\ g.pages[n] \in Pages /\ g.pages[n].next = f.pages[n].next
             /\ \A x \in Episodes : Holds(g.pages[n], x) => Holds(f.pages[n], x)
             /\ \A x \in Episodes : x # id /\ Holds(f.pages[n], x) => Holds(g.pages[n], x)
  <2>1. /\ f.pages[n].items \in Seq(Rows) /\ f.pages[n] \in Pages
        /\ f.pages[n] = [items |-> f.pages[n].items, next |-> f.pages[n].next]
    BY <1>1, FeedParts
  <2>2. PICK left : left = F!Without(f.pages[n].items, id)
    OBVIOUS
  <2>3. g.pages[n] = [items |-> left, next |-> f.pages[n].next]
    BY <1>3, <2>1, <2>2
  <2>4. PICK items : items = f.pages[n].items
    OBVIOUS
  <2>5. /\ left \in Seq(Rows)
        /\ \A m \in DOMAIN left : \E k \in DOMAIN items : left[m] = items[k]
        /\ \A k \in DOMAIN items : items[k].id # id => \E m \in DOMAIN left : left[m] = items[k]
    BY <2>1, <2>2, <2>4, WithoutDoes
  <2>6. f.pages[n].next \in Cursors
    BY <2>1 DEF Pages
  <2>7. g.pages[n] \in Pages /\ g.pages[n].next = f.pages[n].next
    BY <2>3, <2>5, <2>6 DEF Pages
  <2>8. \A x \in Episodes : Holds(g.pages[n], x) => Holds(f.pages[n], x)
    BY <2>3, <2>4, <2>5 DEF Holds
  <2>9. \A x \in Episodes : x # id /\ Holds(f.pages[n], x) => Holds(g.pages[n], x)
    BY <2>3, <2>4, <2>5 DEF Holds
  <2> QED BY <2>7, <2>8, <2>9
<1>5. DOMAIN g.pages = DOMAIN f.pages /\ g.pages \in Seq(Pages) /\ Len(g.pages) = Len(f.pages)
  <2>1. PICK p, len : p = g.pages /\ len = Len(f.pages)
    OBVIOUS
  <2>2. p \in [1..len -> Pages] /\ len \in Nat
    <3>1. p = [n \in 1..len |-> p[n]]
      BY <1>2, <1>3, <2>1
    <3> QED BY <1>2, <1>4, <2>1, <3>1
  <2>3. p \in Seq(Pages) /\ Len(p) = len /\ DOMAIN p = 1..len
    BY ONLY <2>2
  <2> QED BY <1>2, <2>1, <2>3
<1>6. g \in Feeds /\ g.stood = f.stood
  <2>1. f.stood \in SUBSET Episodes
    BY <1>1 DEF Feeds
  <2>2. PICK p, x : p = g.pages /\ x = f.stood
    OBVIOUS
  <2>3. g = [pages |-> p, stood |-> x] /\ p \in Seq(Pages) /\ x \in SUBSET Episodes
    BY <1>3, <1>5, <2>1, <2>2
  <2>4. g \in Feeds /\ g.stood = x
    BY ONLY <2>3 DEF Feeds
  <2> QED BY <2>2, <2>4
<1>7. /\ \A x \in Episodes : Shows(g, x) => Shows(f, x)
      /\ \A x \in Episodes : x # id /\ Shows(f, x) => Shows(g, x)
  BY <1>4, <1>5 DEF Shows
<1>8. f.pages # <<>> => F!LastPage(g).next = F!LastPage(f).next
  <2> SUFFICES ASSUME f.pages # <<>> PROVE F!LastPage(g).next = F!LastPage(f).next
    OBVIOUS
  <2>1. Len(f.pages) \in DOMAIN f.pages
    BY <1>2, <1>1, FeedParts
  <2> QED BY <1>4, <1>5, <2>1 DEF F!LastPage
<1>9. \A x \in Episodes : Shows(g, x) => rows[x].at > 0
  BY <1>7 DEF Good
<1>10. state # "cleared" =>
         \A x \in f.stood : FitsBy(state, rows[x].active) /\ Shows(f, x) => Shows(g, x)
  BY <1>1, <1>7 DEF Feeds
<1> QED BY <1>5, <1>6, <1>8, <1>9, <1>10, Reshaped

(* An episode of the table is put at the head.                             *)
LEMMA HeadedGood ==
  ASSUME NEW f, NEW rows, NEW state, Good(f, rows, state), NEW fresh \in Rows,
         rows[fresh.id].at > 0, f.pages # <<>>,
         NEW g, g = [f EXCEPT !.pages[1].items = <<fresh>> \o @]
  PROVE  Good(g, rows, state)
<1>1. f \in Feeds
  BY DEF Good
<1>2. DOMAIN f.pages = 1..Len(f.pages) /\ Len(f.pages) \in Nat /\ 1 \in DOMAIN f.pages
  BY <1>1, FeedParts
<1>3. PICK first : first = f.pages[1]
  OBVIOUS
<1>4. PICK items : items = <<fresh>> \o first.items
  OBVIOUS
<1>5. /\ first.items \in Seq(Rows) /\ first \in Pages
      /\ first = [items |-> first.items, next |-> first.next]
  BY <1>1, <1>2, <1>3, FeedParts
<1>6. /\ items \in Seq(Rows) /\ \A k \in DOMAIN first.items : k + 1 \in DOMAIN items
                                                              /\ items[k + 1] = first.items[k]
      /\ \A m \in DOMAIN items : items[m] = fresh \/ \E k \in DOMAIN first.items : items[m] = first.items[k]
  <2>1. /\ items \in Seq(Rows) /\ Len(items) = 1 + Len(first.items) /\ Len(first.items) \in Nat
        /\ DOMAIN items = 1..Len(items) /\ DOMAIN first.items = 1..Len(first.items)
    BY <1>4, <1>5
  <2>2. items[1] = fresh
    BY <1>4, <1>5
  <2>3. \A k \in DOMAIN first.items : k + 1 \in DOMAIN items /\ items[k + 1] = first.items[k]
    BY <1>4, <1>5, <2>1
  <2>4. \A m \in DOMAIN items : m = 1 \/ (m - 1 \in DOMAIN first.items /\ items[m] = first.items[m - 1])
    BY <2>1, <2>3
  <2> QED BY <2>1, <2>2, <2>3, <2>4
<1>7. PICK page : page = [items |-> items, next |-> first.next]
  OBVIOUS
<1>8. /\ page \in Pages /\ page.next = first.next
      /\ \A x \in Episodes : Holds(page, x) => x = fresh.id \/ Holds(first, x)
      /\ \A x \in Episodes : Holds(first, x) => Holds(page, x)
  <2>1. page \in Pages /\ page.next = first.next /\ page.items = items
    BY <1>5, <1>6, <1>7 DEF Pages
  <2>2. \A x \in Episodes : Holds(page, x) => x = fresh.id \/ Holds(first, x)
    BY <1>6, <2>1 DEF Holds
  <2>3. \A x \in Episodes : Holds(first, x) => Holds(page, x)
    BY <1>6, <2>1 DEF Holds
  <2> QED BY <2>1, <2>2, <2>3
<1>9. /\ g = [pages |-> g.pages, stood |-> f.stood]
      /\ g.pages = [f.pages EXCEPT ![1] = page]
  <2>1. [first EXCEPT !.items = items] = page
    <3>1. first = [items |-> first.items, next |-> first.next]
      BY <1>5
    <3> QED BY ONLY <1>7, <3>1
  <2>2. [first EXCEPT !.items = <<fresh>> \o @] = page
    BY <1>4, <2>1
  <2>3. PICK new : new = [f.pages EXCEPT ![1] = page]
    OBVIOUS
  <2>4. g = [f EXCEPT !.pages = new]
    BY <1>3, <2>2, <2>3
  <2>5. f = [pages |-> f.pages, stood |-> f.stood]
    BY <1>1, FeedParts
  <2>6. g = [pages |-> new, stood |-> f.stood]
    BY ONLY <2>4, <2>5
  <2>7. g.pages = new
    BY ONLY <2>6
  <2> QED BY <2>3, <2>6, <2>7
<1>10. /\ DOMAIN g.pages = DOMAIN f.pages /\ g.pages \in Seq(Pages) /\ Len(g.pages) = Len(f.pages)
       /\ g.pages[1] = page /\ \A n \in DOMAIN f.pages : n # 1 => g.pages[n] = f.pages[n]
  <2>1. PICK p, q : p = f.pages /\ q = g.pages
    OBVIOUS
  <2>2. p \in Seq(Pages) /\ page \in Pages /\ 1 \in DOMAIN p /\ q = [p EXCEPT ![1] = page]
    BY <1>1, <1>2, <1>8, <1>9, <2>1, FeedParts
  <2>3. /\ DOMAIN q = DOMAIN p /\ q \in Seq(Pages) /\ Len(q) = Len(p) /\ q[1] = page
        /\ \A n \in DOMAIN p : n # 1 => q[n] = p[n]
    BY ONLY <2>2
  <2> QED BY <2>1, <2>3
<1>11. g \in Feeds /\ g.stood = f.stood
  <2>1. f.stood \in SUBSET Episodes
    BY <1>1 DEF Feeds
  <2> QED BY <1>9, <1>10, <2>1 DEF Feeds
<1>12. /\ \A x \in Episodes : Shows(g, x) => x = fresh.id \/ Shows(f, x)
       /\ \A x \in Episodes : Shows(f, x) => Shows(g, x)
  BY <1>2, <1>3, <1>8, <1>10 DEF Shows
<1>13. F!LastPage(g).next = F!LastPage(f).next
  <2>1. Len(f.pages) \in DOMAIN f.pages
    BY <1>2
  <2> QED BY <1>3, <1>8, <1>10, <2>1 DEF F!LastPage
<1>14. \A x \in Episodes : Shows(g, x) => rows[x].at > 0
  BY <1>12 DEF Good
<1>15. \A x \in f.stood : Shows(f, x) => Shows(g, x)
  BY <1>1, <1>12 DEF Feeds
<1> QED BY <1>10, <1>11, <1>13, <1>14, <1>15, Reshaped

-------------------------------------------------------------------------------
LEMMA EmptyGood ==
  ASSUME NEW rows, NEW state
  PROVE  F!NoFeed \in Feeds /\ Good(F!NoFeed, rows, state)
<1>1. <<>> \in Seq(Pages) /\ {} \in SUBSET Episodes
  OBVIOUS
<1>2. F!NoFeed \in Feeds
  BY <1>1 DEF F!NoFeed, Feeds
<1>3. \A id \in Episodes : ~Shows(F!NoFeed, id)
  BY DEF Shows, F!NoFeed
<1> QED BY <1>2, <1>3 DEF Good, F!NoFeed

LEMMA FeedStarts == ASSUME F!FeedInit PROVE FeedInv
<1>1. F!NotRaised \in EpisodeRows /\ episode = [id \in Episodes |-> F!NotRaised] /\ frames = <<>>
  BY DEF F!FeedInit, F!NotRaised, EpisodeRows, People
<1>2. TableInv
  <2>1. <<>> \in Seq([id : Episodes, active : BOOLEAN])
    OBVIOUS
  <2> QED BY <1>1, <2>1 DEF TableInv, F!NotRaised
<1>3. Good(feed, episode, filter) /\ filter \in Filters
  BY EmptyGood DEF F!FeedInit
<1>4. FetchInv
  <2>1. F!NoFetch \in [kind : {"none", "refetch", "more"}, old : Feeds, got : Feeds, left : Nat,
                       cursor : Cursors]
    BY EmptyGood DEF F!NoFetch, F!NoCursor, Cursors
  <2> QED BY <2>1, EmptyGood DEF F!FeedInit, FetchInv, F!NoFetch, F!NoFeed, F!NoCursor
<1>5. MarksInv
  <2>1. F!NoCall \in [at : {"none", "sent", "answer"}, snapshot : Feeds, row : EpisodeRows]
    BY <1>1, EmptyGood DEF F!NoCall
  <2> QED BY <2>1, EmptyGood DEF F!FeedInit, MarksInv, F!NoCall
<1> QED BY <1>2, <1>3, <1>4, <1>5 DEF FeedInv

(* The table moves on under the screen. *)
LEMMA TableMoves ==
  ASSUME FeedInv, \A id \in Episodes : episode[id].at > 0 =>
           episode'[id].at = episode[id].at /\ (episode'[id].active => episode[id].active),
         UNCHANGED <<filter, feed, fetch>>
  PROVE  /\ Good(feed, episode, filter)' /\ FetchInv'
         /\ \A id \in Episodes : Good(marks[id].snapshot, episode', filter)
<1>1. Good(feed, episode', filter) /\ Good(fetch.old, episode', filter) /\ Good(fetch.got, episode', filter)
  BY StillGood DEF FeedInv, FetchInv
<1>2. \A id \in Episodes : Good(marks[id].snapshot, episode', filter)
  BY StillGood DEF FeedInv, MarksInv
<1>3. Good(feed, episode, filter)'
  <2>1. PICK f, s : f = feed /\ s = filter
    OBVIOUS
  <2>2. feed' = f /\ filter' = s /\ Good(f, episode', s)
    BY <1>1, <2>1
  <2> QED BY <2>2
<1>4. Good(fetch.old, episode, filter)' /\ Good(fetch.got, episode, filter)'
  <2>1. PICK f, s : f = fetch /\ s = filter
    OBVIOUS
  <2>2. fetch' = f /\ filter' = s /\ Good(f.old, episode', s) /\ Good(f.got, episode', s)
    BY <1>1, <2>1
  <2> QED BY <2>2
<1>5. FetchInv'
  <2>1. FetchInv /\ fetch' = fetch
    BY DEF FeedInv
  <2> QED BY <1>4, <2>1 DEF FetchInv, F!LastPage
<1> QED BY <1>2, <1>3, <1>5

(* An episode raised, cleared or acknowledged. *)
LEMMA RowChanges ==
  ASSUME FeedInv, NEW id \in Episodes, NEW new \in EpisodeRows, episode' = [episode EXCEPT ![id] = new],
         new.at > 0, episode[id].at > 0 => new.at = episode[id].at /\ (new.active => episode[id].active),
         UNCHANGED <<filter, feed, fetch>>,
         frames' = frames \/ frames' = Append(frames, [id |-> id, active |-> new.active])
  PROVE  TableInv' /\ filter' \in Filters /\ Good(feed, episode, filter)' /\ FetchInv'
         /\ (\A x \in Episodes : Good(marks[x].snapshot, episode', filter')
                                 /\ (episode[x].at > 0 => episode'[x].at > 0))
<1>1. /\ episode \in [Episodes -> EpisodeRows] /\ frames \in Seq([id : Episodes, active : BOOLEAN])
      /\ \A x \in Episodes : episode[x].at = 0 => ~episode[x].active /\ episode[x].acked = "nobody"
      /\ \A n \in DOMAIN frames : /\ episode[frames[n].id].at > 0
                                  /\ episode[frames[n].id].active => frames[n].active
  BY DEF FeedInv, TableInv
<1>2. episode' \in [Episodes -> EpisodeRows] /\ episode'[id] = new
      /\ \A x \in Episodes : x # id => episode'[x] = episode[x]
  BY <1>1
<1>3. \A x \in Episodes : episode[x].at > 0 =>
        episode'[x].at = episode[x].at /\ (episode'[x].active => episode[x].active)
  BY <1>2
<1>4. Good(feed, episode, filter)' /\ FetchInv'
      /\ \A x \in Episodes : Good(marks[x].snapshot, episode', filter)
  BY <1>3, TableMoves
<1>5. \A x \in Episodes : episode'[x].at = 0 => ~episode'[x].active /\ episode'[x].acked = "nobody"
  BY <1>1, <1>2
<1>6. \A n \in DOMAIN frames : frames[n].id \in Episodes
  <2>1. PICK M : M = [id : Episodes, active : BOOLEAN]
    OBVIOUS
  <2>2. frames \in Seq(M)
    BY <1>1, <2>1
  <2>3. \A n \in DOMAIN frames : frames[n] \in M
    BY ONLY <2>2
  <2> QED BY <2>1, <2>3
<1>7. \A n \in DOMAIN frames : /\ episode'[frames[n].id].at > 0
                               /\ episode'[frames[n].id].active => frames[n].active
  BY <1>1, <1>3, <1>6
<1>8. frames' \in Seq([id : Episodes, active : BOOLEAN])
      /\ \A n \in DOMAIN frames' : /\ episode'[frames'[n].id].at > 0
                                   /\ episode'[frames'[n].id].active => frames'[n].active
  <2>1. CASE frames' = frames
    BY <1>1, <1>7, <2>1
  <2>2. CASE frames' = Append(frames, [id |-> id, active |-> new.active])
    <3>1. PICK e : e = [id |-> id, active |-> new.active]
      OBVIOUS
    <3>2. e \in [id : Episodes, active : BOOLEAN] /\ e.id = id /\ e.active = new.active
      BY <3>1 DEF EpisodeRows
    <3>3. frames' = Append(frames, e)
      BY <2>2, <3>1
    <3>4. /\ frames' \in Seq([id : Episodes, active : BOOLEAN])
          /\ \A n \in DOMAIN frames' : frames'[n] = e \/ (n \in DOMAIN frames /\ frames'[n] = frames[n])
      BY <1>1, <3>2, <3>3
    <3> QED BY <1>2, <1>7, <3>2, <3>4
  <2> QED BY <2>1, <2>2
<1> QED BY <1>2, <1>3, <1>4, <1>5, <1>8 DEF TableInv, FeedInv

LEMMA TableHolds ==
  ASSUME FeedInv, NEW id \in Episodes,
         (\E at \in Moments : F!Raise(id, at)) \/ F!Clear(id) \/ F!AckByOther(id)
  PROVE  FeedInv'
<1>1. /\ episode \in [Episodes -> EpisodeRows] /\ episode[id] \in EpisodeRows
      /\ episode[id].at = 0 => ~episode[id].active
  BY DEF FeedInv, TableInv
<1>2. UNCHANGED <<filter, feed, fetch, marks>>
  BY DEF F!Raise, F!Clear, F!AckByOther, F!screen
<1>3. \E new \in EpisodeRows :
        /\ episode' = [episode EXCEPT ![id] = new] /\ new.at > 0
        /\ episode[id].at > 0 => new.at = episode[id].at /\ (new.active => episode[id].active)
        /\ frames' = frames \/ frames' = Append(frames, [id |-> id, active |-> new.active])
  <2>1. CASE \E at \in Moments : F!Raise(id, at)
    <3>1. PICK at \in Moments : F!Raise(id, at)
      BY <2>1
    <3>2. PICK new : new = [at |-> at, active |-> TRUE, acked |-> "nobody"]
      OBVIOUS
    <3>3. new \in EpisodeRows /\ new.at > 0 /\ new.active = TRUE
      BY <3>2, FeedNumbers DEF EpisodeRows, People
    <3>4. ~(episode[id].at > 0)
      BY <3>1 DEF F!Raise, F!Raised
    <3>5. episode' = [episode EXCEPT ![id] = new]
          /\ frames' = Append(frames, [id |-> id, active |-> new.active])
      BY <3>1, <3>2, <3>3 DEF F!Raise
    <3> QED BY <3>3, <3>4, <3>5
  <2>2. CASE F!Clear(id)
    <3>1. PICK new : new = [episode[id] EXCEPT !.active = FALSE]
      OBVIOUS
    <3>2. new \in EpisodeRows /\ new.at = episode[id].at /\ new.active = FALSE /\ new.at \in Nat
      BY <1>1, <3>1 DEF EpisodeRows
    <3>3. new.at > 0
      BY <1>1, <2>2, <3>2 DEF F!Clear
    <3>4. episode' = [episode EXCEPT ![id] = new]
          /\ frames' = Append(frames, [id |-> id, active |-> new.active])
      BY <1>1, <2>2, <3>1, <3>2 DEF F!Clear
    <3> QED BY <3>2, <3>3, <3>4
  <2>3. CASE F!AckByOther(id)
    <3>1. PICK new : new = F!AckedBy(episode[id], "other")
      OBVIOUS
    <3>2. new \in EpisodeRows /\ new.at = episode[id].at /\ new.active = episode[id].active
      BY <1>1, <3>1 DEF EpisodeRows, People, F!AckedBy
    <3>3. new.at > 0
      BY <2>3, <3>2 DEF F!AckByOther, F!Raised
    <3>4. episode' = [episode EXCEPT ![id] = new] /\ frames' = frames
      BY <1>1, <2>3, <3>1 DEF F!AckByOther
    <3> QED BY <3>2, <3>3, <3>4
  <2> QED BY <2>1, <2>2, <2>3
<1>4. TableInv' /\ filter' \in Filters /\ Good(feed, episode, filter)' /\ FetchInv'
      /\ (\A x \in Episodes : Good(marks[x].snapshot, episode', filter)
                              /\ (episode[x].at > 0 => episode'[x].at > 0))
  BY <1>2, <1>3, RowChanges
<1>5. MarksInv'
  BY <1>2, <1>4 DEF FeedInv, MarksInv
<1> QED BY <1>4, <1>5 DEF FeedInv

LEMMA AckServedHolds == ASSUME FeedInv, NEW id \in Episodes, F!AckServed(id) PROVE FeedInv'
<1>1. PICK new : new = F!AckedBy(episode[id], "me")
  OBVIOUS
<1>2. /\ episode \in [Episodes -> EpisodeRows] /\ episode[id] \in EpisodeRows
      /\ marks \in [Episodes -> [at : {"none", "sent", "answer"}, snapshot : Feeds, row : EpisodeRows]]
      /\ episode[id].at > 0
  BY DEF FeedInv, TableInv, MarksInv, F!AckServed
<1>3. new \in EpisodeRows /\ new.at = episode[id].at /\ new.active = episode[id].active
  BY <1>1, <1>2 DEF EpisodeRows, People, F!AckedBy
<1>4. episode' = [episode EXCEPT ![id] = new] /\ UNCHANGED <<frames, filter, feed, fetch>>
  BY <1>1, <1>2 DEF F!AckServed
<1>5. TableInv' /\ filter' \in Filters /\ Good(feed, episode, filter)' /\ FetchInv'
      /\ (\A x \in Episodes : Good(marks[x].snapshot, episode', filter)
                              /\ (episode[x].at > 0 => episode'[x].at > 0))
  BY <1>2, <1>3, <1>4, RowChanges
<1>6. MarksInv'
  <2>1. PICK mark : mark = [marks[id] EXCEPT !.at = "answer", !.row = new]
    OBVIOUS
  <2>2. /\ mark \in [at : {"none", "sent", "answer"}, snapshot : Feeds, row : EpisodeRows]
        /\ mark.at = "answer" /\ mark.snapshot = marks[id].snapshot
    BY <1>2, <1>3, <2>1
  <2>3. marks' = [marks EXCEPT ![id] = mark]
    BY <1>1, <1>2, <2>1 DEF F!AckServed
  <2>4. /\ marks' \in [Episodes -> [at : {"none", "sent", "answer"}, snapshot : Feeds, row : EpisodeRows]]
        /\ \A x \in Episodes : marks'[x].snapshot = marks[x].snapshot
                               /\ (marks'[x].at = "sent" => marks[x].at = "sent")
    BY <1>2, <2>2, <2>3
  <2>5. filter' = filter
    BY <1>4
  <2>6. \A x \in Episodes : Good(marks'[x].snapshot, episode', filter')
    BY <1>5, <2>4, <2>5
  <2>7. \A x \in Episodes : marks'[x].at = "sent" => episode'[x].at > 0
    BY <1>5, <2>4 DEF FeedInv, MarksInv
  <2> QED BY <2>4, <2>6, <2>7 DEF MarksInv
<1> QED BY <1>5, <1>6 DEF FeedInv

(* What the screen does leaves the table alone. *)
LEMMA ScreenMoves ==
  ASSUME FeedInv, UNCHANGED <<episode, filter>>
  PROVE  /\ filter' \in Filters
         /\ frames' \in {frames, <<>>} \/ (frames # <<>> /\ frames' = Tail(frames)) => TableInv'
         /\ \A f \in Feeds : Good(f, episode, filter) => Good(f, episode', filter')
         /\ UNCHANGED feed => Good(feed, episode, filter)'
         /\ UNCHANGED fetch => FetchInv'
         /\ UNCHANGED marks => MarksInv'
<1>1. ASSUME frames' \in {frames, <<>>} \/ (frames # <<>> /\ frames' = Tail(frames)) PROVE TableInv'
  <2>1. TableInv /\ frames \in Seq([id : Episodes, active : BOOLEAN])
    BY DEF FeedInv, TableInv
  <2>2. /\ frames' \in Seq([id : Episodes, active : BOOLEAN])
        /\ \A n \in DOMAIN frames' : \E k \in DOMAIN frames : frames'[n] = frames[k]
    <3>1. CASE frames' = frames
      BY <2>1, <3>1
    <3>2. CASE frames' = <<>>
      BY <3>2
    <3>3. CASE frames # <<>> /\ frames' = Tail(frames)
      <4>1. /\ frames' \in Seq([id : Episodes, active : BOOLEAN])
            /\ \A n \in DOMAIN frames' : n + 1 \in DOMAIN frames /\ frames'[n] = frames[n + 1]
        BY <2>1, <3>3
      <4> QED BY <4>1
    <3> QED BY <1>1, <3>1, <3>2, <3>3
  <2>3. \A n \in DOMAIN frames' : /\ episode'[frames'[n].id].at > 0
                                  /\ episode'[frames'[n].id].active => frames'[n].active
    BY <2>1, <2>2 DEF TableInv
  <2> QED BY <2>1, <2>2, <2>3 DEF TableInv
<1>2. UNCHANGED feed => Good(feed, episode, filter)'
  <2> SUFFICES ASSUME UNCHANGED feed PROVE Good(feed, episode, filter)'
    OBVIOUS
  <2>1. PICK f, e, s : f = feed /\ e = episode /\ s = filter
    OBVIOUS
  <2>2. Good(f, e, s) /\ feed' = f /\ episode' = e /\ filter' = s
    BY <2>1 DEF FeedInv
  <2> QED BY <2>2
<1>3. UNCHANGED fetch => FetchInv'
  <2> SUFFICES ASSUME UNCHANGED fetch PROVE FetchInv'
    OBVIOUS
  <2>1. PICK f, e, s : f = fetch /\ e = episode /\ s = filter
    OBVIOUS
  <2>2. Good(f.old, e, s) /\ Good(f.got, e, s) /\ fetch' = f /\ episode' = e /\ filter' = s
    BY <2>1 DEF FeedInv, FetchInv
  <2>3. Good(fetch.old, episode, filter)' /\ Good(fetch.got, episode, filter)'
    BY <2>2
  <2> QED BY <2>3 DEF FeedInv, FetchInv, F!LastPage
<1>4. UNCHANGED marks => MarksInv'
  BY DEF FeedInv, MarksInv
<1> QED BY <1>1, <1>2, <1>3, <1>4 DEF FeedInv

LEMMA FetchTypes ==
  ASSUME FeedInv
  PROVE  /\ feed \in Feeds /\ Good(feed, episode, filter)
         /\ fetch.old \in Feeds /\ fetch.got \in Feeds /\ fetch.left \in Nat /\ fetch.cursor \in Cursors
         /\ fetch.kind \in {"none", "refetch", "more"}
         /\ fetch = [kind |-> fetch.kind, old |-> fetch.old, got |-> fetch.got, left |-> fetch.left,
                     cursor |-> fetch.cursor]
BY DEF FeedInv, FetchInv, Good

(* A read that is begun: all pages anew, or one more. *)
LEMMA BegunFetch ==
  ASSUME FeedInv, UNCHANGED <<episode, filter>>,
         \/ fetch' = F!Refetch \/ fetch' = F!NoFetch
         \/ /\ feed.pages # <<>> /\ F!LastPage(feed).next # <<>>
            /\ fetch' = [kind |-> "more", old |-> feed, got |-> feed, left |-> 1,
                         cursor |-> F!LastPage(feed).next]
  PROVE  FetchInv'
<1>1. feed \in Feeds /\ Good(feed, episode, filter) /\ feed.pages \in Seq(Pages)
      /\ Len(feed.pages) \in Nat
  BY FetchTypes, FeedParts
<1>2. F!NoFeed \in Feeds /\ Good(F!NoFeed, episode, filter) /\ F!NoFeed.pages = <<>>
  BY EmptyGood DEF F!NoFeed
<1>3. PICK f : f = fetch'
  OBVIOUS
<1>4. f = F!Refetch \/ f = F!NoFetch =>
        /\ f \in [kind : {"none", "refetch", "more"}, old : Feeds, got : Feeds, left : Nat,
                  cursor : Cursors]
        /\ f.old \in {feed, F!NoFeed} /\ f.got = F!NoFeed /\ f.cursor = <<>>
  BY <1>1, <1>2 DEF F!Refetch, F!NoFetch, F!NoCursor, Cursors
<1>5. f = [kind |-> "more", old |-> feed, got |-> feed, left |-> 1,
           cursor |-> F!LastPage(feed).next] /\ feed.pages # <<>> =>
        /\ f \in [kind : {"none", "refetch", "more"}, old : Feeds, got : Feeds, left : Nat,
                  cursor : Cursors]
        /\ f.old = feed /\ f.got = feed /\ f.cursor = F!LastPage(feed).next
  <2> SUFFICES ASSUME feed.pages # <<>> PROVE F!LastPage(feed).next \in Cursors
    BY <1>1
  <2>1. Len(feed.pages) \in DOMAIN feed.pages
    BY <1>1
  <2>2. feed.pages[Len(feed.pages)] \in Pages
    BY <1>1, <2>1
  <2> QED BY <2>2 DEF F!LastPage, Pages
<1>6. PICK e, s : e = episode /\ s = filter
  OBVIOUS
<1>7. fetch' = f /\ episode' = e /\ filter' = s /\ Good(feed, e, s) /\ Good(F!NoFeed, e, s)
  BY <1>1, <1>2, <1>3, <1>6
<1>8. f \in [kind : {"none", "refetch", "more"}, old : Feeds, got : Feeds, left : Nat, cursor : Cursors]
      /\ f.old \in {feed, F!NoFeed} /\ f.got \in {feed, F!NoFeed}
      /\ (f.got.pages = <<>> => f.cursor = <<>>)
      /\ (f.got.pages # <<>> => f.cursor = F!LastPage(f.got).next)
      /\ (f.got.pages # <<>> /\ f.left > 0 => f.cursor # <<>>)
  BY <1>2, <1>3, <1>4, <1>5
<1>9. Good(f.old, e, s) /\ Good(f.got, e, s)
  BY <1>7, <1>8
<1> QED BY <1>7, <1>8, <1>9 DEF FetchInv, F!LastPage

LEMMA ReadsHold ==
  ASSUME FeedInv, F!Reload \/ F!LoadMore \/ F!FetchFails \/ F!Resync \/ F!Deliver
  PROVE  FeedInv'
<1>1. UNCHANGED <<episode, filter, marks>> /\ frames' \in {frames, <<>>}
  BY DEF F!Reload, F!LoadMore, F!FetchFails, F!Resync, F!Deliver
<1>2. TableInv' /\ filter' \in Filters /\ MarksInv' /\ (UNCHANGED feed => Good(feed, episode, filter)')
      /\ (UNCHANGED fetch => FetchInv')
  BY <1>1, ScreenMoves
<1>3. FetchInv'
  <2>1. \/ fetch' = F!Refetch \/ fetch' = F!NoFetch \/ fetch' = fetch
        \/ /\ feed.pages # <<>> /\ F!LastPage(feed).next # <<>>
           /\ fetch' = [kind |-> "more", old |-> feed, got |-> feed, left |-> 1,
                        cursor |-> F!LastPage(feed).next]
    BY DEF F!Reload, F!LoadMore, F!FetchFails, F!Resync, F!Deliver, F!NoCursor
  <2> QED BY <1>1, <1>2, <2>1, BegunFetch
<1>4. Good(feed, episode, filter)'
  <2>1. CASE F!Deliver
    <3>1. PICK f, e, s : f = fetch.got /\ e = episode /\ s = filter
      OBVIOUS
    <3>2. feed' = f /\ episode' = e /\ filter' = s /\ Good(f, e, s)
      BY <1>1, <2>1, <3>1 DEF F!Deliver, FeedInv, FetchInv
    <3> QED BY <3>2
  <2>2. CASE ~F!Deliver
    <3>1. feed' = feed
      BY <2>2 DEF F!Reload, F!LoadMore, F!FetchFails, F!Resync
    <3> QED BY <1>2, <3>1
  <2> QED BY <2>1, <2>2
<1> QED BY <1>2, <1>3, <1>4 DEF FeedInv

(* A page that is read is put behind those read before. *)
LEMMA ReadPageHolds == ASSUME FeedInv, F!ReadPage PROVE FeedInv'
<1> DEFINE ids == F!Matching(fetch.cursor)
<1>1. UNCHANGED <<episode, filter, marks, feed, frames>> /\ fetch.left > 0
  BY DEF F!ReadPage
<1>2. TableInv' /\ filter' \in Filters /\ MarksInv' /\ Good(feed, episode, filter)'
  BY <1>1, ScreenMoves
<1>3. PICK got, e, s : got = fetch.got /\ e = episode /\ s = filter
  OBVIOUS
<1>4. /\ got \in Feeds /\ Good(got, e, s) /\ got.pages \in Seq(Pages)
      /\ got = [pages |-> got.pages, stood |-> got.stood]
      /\ e \in [Episodes -> EpisodeRows] /\ got.stood \in SUBSET Episodes
  BY <1>3, FetchTypes, FeedParts DEF FeedInv, FetchInv, TableInv, Feeds
<1>5. PICK page : page = F!PageOf(ids)
  OBVIOUS
<1>6. /\ page \in Pages
      /\ \A id \in Episodes : Holds(page, id) => id \in ids
      /\ \A id \in ids : Reached(page.next, e[id].at, id) => Holds(page, id)
  <2>1. ids \in SUBSET Episodes
    BY DEF F!Matching, F!Raised
  <2> HIDE DEF ids
  <2> QED BY <1>3, <1>4, <1>5, <2>1, PageDoes
<1>7. \A id \in Episodes :
        id \in ids <=> /\ e[id].at > 0 /\ FitsBy(s, e[id].active)
                       /\ fetch.cursor # <<>> => F!Before(fetch.cursor, <<e[id].at, id>>)
  BY <1>3 DEF F!Matching, F!Raised, F!Fits, FitsBy, F!NoCursor, F!Position
<1>8. PICK new : new = [pages |-> Append(got.pages, page),
                        stood |-> IF fetch.cursor = <<>> THEN ids ELSE got.stood]
  OBVIOUS
<1>9. /\ fetch'.got = new /\ fetch'.cursor = page.next /\ fetch'.old = fetch.old
      /\ fetch'.kind = fetch.kind
      /\ (page.next = <<>> => fetch'.left = 0) /\ (page.next # <<>> => fetch'.left = fetch.left - 1)
      /\ fetch' = [kind |-> fetch.kind, old |-> fetch.old, got |-> new, left |-> fetch'.left,
                   cursor |-> page.next]
  <2>1. fetch' = [fetch EXCEPT
           !.got.pages = Append(@, page),
           !.got.stood = IF fetch.cursor = <<>> THEN F!Matching(<<>>) ELSE @,
           !.cursor = page.next, !.left = IF page.next = <<>> THEN 0 ELSE @ - 1]
    BY <1>5 DEF F!ReadPage, F!ListAlarms, F!NoCursor
  <2>2. PICK stood : stood = IF fetch.cursor = <<>> THEN ids ELSE got.stood
    OBVIOUS
  <2>3. stood = IF fetch.cursor = <<>> THEN F!Matching(<<>>) ELSE got.stood
    BY <2>2
  <2>4. new = [pages |-> Append(got.pages, page), stood |-> stood]
    BY <1>8, <2>2
  <2> HIDE DEF ids
  <2>5. fetch' = [kind |-> fetch.kind, old |-> fetch.old, got |-> new,
                  left |-> IF page.next = <<>> THEN 0 ELSE fetch.left - 1, cursor |-> page.next]
    BY <1>3, <1>4, <2>1, <2>3, <2>4, FetchTypes
  <2> QED BY <2>5
<1> HIDE DEF ids
<1>10. /\ new.pages \in Seq(Pages) /\ Len(new.pages) = Len(got.pages) + 1 /\ Len(got.pages) \in Nat
       /\ DOMAIN got.pages = 1..Len(got.pages) /\ DOMAIN new.pages = 1..Len(got.pages) + 1
       /\ new.pages[Len(got.pages) + 1] = page
       /\ \A n \in DOMAIN got.pages : n \in DOMAIN new.pages /\ new.pages[n] = got.pages[n]
       /\ new.pages # <<>>
  BY <1>4, <1>6, <1>8
<1>11. new \in Feeds
  <2>1. ids \in SUBSET Episodes
    BY DEF F!Matching, F!Raised, ids
  <2> QED BY <1>4, <1>8, <1>10, <2>1 DEF Feeds
<1>12. \A id \in Episodes : Shows(new, id) <=> Shows(got, id) \/ Holds(page, id)
  BY <1>10 DEF Shows
<1>13. F!LastPage(new).next = page.next
  BY <1>10 DEF F!LastPage
<1>14. /\ got.pages = <<>> => fetch.cursor = <<>>
       /\ got.pages # <<>> => fetch.cursor = F!LastPage(got).next /\ fetch.cursor # <<>>
  BY <1>1, <1>3 DEF FeedInv, FetchInv
<1>15. Good(new, e, s)
  <2>1. \A id \in new.stood : id \in Episodes /\ e[id].at > 0
    <3>1. CASE fetch.cursor = <<>>
      BY <1>7, <1>8, <1>11, <3>1 DEF Feeds
    <3>2. CASE fetch.cursor # <<>>
      BY <1>4, <1>8, <3>2 DEF Good
    <3> QED BY <3>1, <3>2
  <2>2. \A id \in Episodes : Shows(new, id) => e[id].at > 0
    BY <1>4, <1>6, <1>7, <1>12 DEF Good
  <2>3. ASSUME s # "cleared", NEW id \in new.stood, FitsBy(s, e[id].active),
               Reached(page.next, e[id].at, id)
        PROVE  Shows(new, id)
    <3>1. CASE id \in ids
      BY <1>6, <1>12, <2>1, <2>3, <3>1
    <3>2. CASE id \notin ids
      <4>1. fetch.cursor # <<>> /\ ~F!Before(fetch.cursor, <<e[id].at, id>>)
        BY <1>7, <1>8, <2>1, <2>3, <3>2
      <4>2. id \in got.stood /\ fetch.cursor = F!LastPage(got).next
        BY <1>8, <1>14, <4>1
      <4>3. Reached(F!LastPage(got).next, e[id].at, id)
        BY <4>1, <4>2 DEF Reached
      <4>4. Shows(got, id)
        BY <1>4, <2>3, <4>2, <4>3 DEF Good
      <4> QED BY <1>12, <2>1, <4>4
    <3> QED BY <3>1, <3>2
  <2> QED BY <1>10, <1>11, <1>13, <2>1, <2>2, <2>3 DEF Good
<1>16. FetchInv'
  <2>1. PICK f, old : f = fetch' /\ old = fetch.old
    OBVIOUS
  <2>2. Good(old, e, s) /\ old \in Feeds
    BY <1>3, <2>1, FetchTypes DEF FeedInv, FetchInv
  <2>3. page.next \in Cursors
    BY <1>6 DEF Pages
  <2>4. f.left \in Nat /\ (page.next = <<>> => f.left = 0)
    BY <1>1, <1>9, <2>1, FetchTypes
  <2>5. f \in [kind : {"none", "refetch", "more"}, old : Feeds, got : Feeds, left : Nat,
               cursor : Cursors]
    BY <1>9, <1>11, <2>1, <2>2, <2>3, <2>4, FetchTypes
  <2>6. fetch' = f /\ episode' = e /\ filter' = s /\ f.old = old /\ f.got = new /\ f.cursor = page.next
    BY <1>1, <1>3, <1>9, <2>1
  <2> QED BY <1>10, <1>13, <1>15, <2>2, <2>4, <2>5, <2>6 DEF FetchInv, F!LastPage
<1> QED BY <1>2, <1>16 DEF FeedInv

(* A live event patches a row, takes it out or puts it at the head. *)
LEMMA PatchAlarmHolds == ASSUME FeedInv, F!PatchAlarm PROVE FeedInv'
<1>1. UNCHANGED <<episode, filter, marks, fetch>> /\ frames # <<>> /\ frames' = Tail(frames)
  BY DEF F!PatchAlarm
<1>2. TableInv' /\ filter' \in Filters /\ MarksInv' /\ FetchInv'
  BY <1>1, ScreenMoves
<1>3. PICK f, e, s : f = feed /\ e = episode /\ s = filter
  OBVIOUS
<1>4. PICK event : event = Head(frames)
  OBVIOUS
<1>5. /\ event \in [id : Episodes, active : BOOLEAN] /\ e[event.id].at > 0
      /\ e[event.id].active => event.active
  <2>1. frames \in Seq([id : Episodes, active : BOOLEAN]) /\ 1 \in DOMAIN frames
    BY <1>1 DEF FeedInv, TableInv
  <2>2. event = frames[1]
    BY <1>1, <1>4, <2>1
  <2>3. PICK M : M = [id : Episodes, active : BOOLEAN]
    OBVIOUS
  <2>4. event \in M
    <3>1. frames \in Seq(M) /\ 1 \in DOMAIN frames
      BY <2>1, <2>3
    <3>2. frames[1] \in M
      BY ONLY <3>1
    <3> QED BY <2>2, <3>2
  <2>5. e[event.id].at > 0 /\ (e[event.id].active => event.active)
    BY <1>3, <2>1, <2>2 DEF FeedInv, TableInv
  <2> QED BY <2>3, <2>4, <2>5
<1>6. f \in Feeds /\ Good(f, e, s)
  BY <1>3, FetchTypes
<1>7. PICK fresh : fresh = [id |-> event.id, active |-> event.active, acked |-> "nobody"]
  OBVIOUS
<1>8. fresh \in Rows /\ fresh.id = event.id
  BY <1>5, <1>7 DEF Rows, People
<1>0. PICK r : r = [entry \in Rows |-> IF entry.id = event.id
                      THEN [entry EXCEPT !.active = event.active] ELSE entry]
  OBVIOUS
<1>9. \/ feed' = f
      \/ ~FitsBy(s, event.active) /\ feed' = Cleaned(f, event.id)
      \/ feed' = Over(f, r)
      \/ f.pages # <<>> /\ feed' = [f EXCEPT !.pages[1].items = <<fresh>> \o @]
  <2>1. FitsBy(s, event.active) <=> F!Fits(event.active)
    BY <1>3 DEF FitsBy, F!Fits
  <2>2. F!ItemsOf(f, LAMBDA entry : IF entry.id = event.id
                                    THEN [entry EXCEPT !.active = event.active] ELSE entry)
          = Over(f, r)
    <3>1. \A n \in DOMAIN f.pages : \A k \in DOMAIN f.pages[n].items : f.pages[n].items[k] \in Rows
      BY <1>6, FeedParts
    <3> QED BY <1>0, <3>1 DEF F!ItemsOf, Over
  <2> QED BY <1>3, <1>4, <1>7, <2>1, <2>2 DEF F!PatchAlarm, Cleaned
<1>10. PICK g : g = feed'
  OBVIOUS
<1>11. Good(g, e, s)
  <2>1. CASE g = f
    BY <1>6, <2>1
  <2>2. CASE ~FitsBy(s, event.active) /\ g = Cleaned(f, event.id)
    <3>1. s # "cleared" => ~FitsBy(s, e[event.id].active)
      BY <1>5, <2>2 DEF FitsBy
    <3> QED BY <1>6, <2>2, <3>1, CleanedGood
  <2>3. CASE g = Over(f, r)
    <3>1. event.active \in BOOLEAN
      BY <1>5
    <3> QED BY <1>0, <1>6, <2>3, <3>1, PatchedGood
  <2>4. CASE f.pages # <<>> /\ g = [f EXCEPT !.pages[1].items = <<fresh>> \o @]
    BY <1>5, <1>6, <1>8, <2>4, HeadedGood
  <2> QED BY <1>9, <1>10, <2>1, <2>2, <2>3, <2>4
<1>12. Good(feed, episode, filter)'
  <2>1. feed' = g /\ episode' = e /\ filter' = s
    BY <1>1, <1>3, <1>10
  <2> QED BY <1>11, <2>1
<1> QED BY <1>2, <1>12 DEF FeedInv

(* The mark, its success and its refusal. *)
LEMMA AckHolds ==
  ASSUME FeedInv, NEW id \in Episodes, F!Ack(id) \/ F!AckSucceeds(id) \/ F!AckFails(id)
  PROVE  FeedInv'
<1>1. UNCHANGED <<episode, filter, frames>>
  BY DEF F!Ack, F!AckSucceeds, F!AckFails
<1>2. TableInv' /\ filter' \in Filters /\ (UNCHANGED fetch => FetchInv')
  BY <1>1, ScreenMoves
<1>3. PICK f, e, s : f = feed /\ e = episode /\ s = filter
  OBVIOUS
<1>4. /\ Good(f, e, s) /\ f \in Feeds /\ Good(fetch.old, e, s) /\ fetch.old \in Feeds
      /\ marks \in [Episodes -> [at : {"none", "sent", "answer"}, snapshot : Feeds, row : EpisodeRows]]
      /\ \A x \in Episodes : Good(marks[x].snapshot, e, s) /\ (marks[x].at = "sent" => e[x].at > 0)
  BY <1>3, FetchTypes DEF FeedInv, FetchInv, MarksInv
<1>5. FetchInv'
  <2>1. UNCHANGED fetch \/ fetch' = F!NoFetch
    BY DEF F!Ack, F!AckSucceeds, F!AckFails
  <2> QED BY <1>1, <1>2, <2>1, BegunFetch
<1>6. \E g, mark :
        /\ feed' = g /\ Good(g, e, s) /\ marks' = [marks EXCEPT ![id] = mark]
        /\ mark \in [at : {"none", "sent", "answer"}, snapshot : Feeds, row : EpisodeRows]
        /\ Good(mark.snapshot, e, s) /\ (mark.at = "sent" => e[id].at > 0)
  <2>1. F!NoCall \in [at : {"none", "sent", "answer"}, snapshot : Feeds, row : EpisodeRows]
        /\ Good(F!NoCall.snapshot, e, s) /\ F!NoCall.at = "none"
    BY EmptyGood DEF F!NoCall, F!NotRaised, EpisodeRows, People
  <2>2. CASE F!Ack(id)
    <3>1. PICK base : base = IF fetch.kind = "none" THEN feed ELSE fetch.old
      OBVIOUS
    <3>2. base \in Feeds /\ Good(base, e, s)
      BY <1>3, <1>4, <3>1
    <3>3. PICK mark : mark = [F!NoCall EXCEPT !.at = "sent", !.snapshot = base]
      OBVIOUS
    <3>4. mark \in [at : {"none", "sent", "answer"}, snapshot : Feeds, row : EpisodeRows]
          /\ mark.snapshot = base
      BY <2>1, <3>2, <3>3
    <3>5. marks' = [marks EXCEPT ![id] = mark] /\ feed' = F!Marked(base, id, "me")
      BY <2>2, <3>1, <3>3 DEF F!Ack
    <3>6. Good(F!Marked(base, id, "me"), e, s)
      BY <3>2, MarkedGood DEF People
    <3>7. e[id].at > 0
      <4>1. Shows(f, id)
        BY <1>3, <2>2 DEF F!Ack, Shows, Holds
      <4> QED BY <1>4, <4>1 DEF Good
    <3> QED BY <3>2, <3>4, <3>5, <3>6, <3>7
  <2>3. CASE F!AckSucceeds(id)
    <3>1. PICK active, person : active = marks[id].row.active /\ person = marks[id].row.acked
      OBVIOUS
    <3>2. active \in BOOLEAN /\ person \in People
      <4>1. marks[id].row \in EpisodeRows
        BY <1>4
      <4> QED BY <3>1, <4>1 DEF EpisodeRows
    <3>0. PICK r : r = [entry \in Rows |-> IF entry.id = id
                          THEN [id |-> id, active |-> active, acked |-> person] ELSE entry]
      OBVIOUS
    <3>3. feed' = Over(f, r) /\ marks' = [marks EXCEPT ![id] = F!NoCall]
      <4>1. \A n \in DOMAIN f.pages : \A k \in DOMAIN f.pages[n].items :
              f.pages[n].items[k] \in Rows
        BY <1>4, FeedParts
      <4> QED BY <1>3, <2>3, <3>0, <3>1, <4>1 DEF F!AckSucceeds, F!ItemsOf, Over
    <3>4. Good(Over(f, r), e, s)
      BY <1>4, <3>0, <3>2, AnsweredGood
    <3> QED BY <2>1, <3>3, <3>4
  <2>4. CASE F!AckFails(id)
    <3>1. feed' \in {f, marks[id].snapshot} /\ marks' = [marks EXCEPT ![id] = F!NoCall]
      BY <1>3, <2>4 DEF F!AckFails
    <3> QED BY <1>4, <2>1, <3>1
  <2> QED BY <2>2, <2>3, <2>4
<1>7. PICK g, mark :
        /\ feed' = g /\ Good(g, e, s) /\ marks' = [marks EXCEPT ![id] = mark]
        /\ mark \in [at : {"none", "sent", "answer"}, snapshot : Feeds, row : EpisodeRows]
        /\ Good(mark.snapshot, e, s) /\ (mark.at = "sent" => e[id].at > 0)
  BY <1>6
<1>8. Good(feed, episode, filter)'
  <2>1. episode' = e /\ filter' = s
    BY <1>1, <1>3
  <2> QED BY <1>7, <2>1
<1>9. MarksInv'
  <2>1. episode' = e /\ filter' = s
    BY <1>1, <1>3
  <2>2. /\ marks' \in [Episodes -> [at : {"none", "sent", "answer"}, snapshot : Feeds, row : EpisodeRows]]
        /\ marks'[id] = mark /\ \A x \in Episodes : x # id => marks'[x] = marks[x]
    BY <1>4, <1>7
  <2>3. \A x \in Episodes : Good(marks'[x].snapshot, e, s) /\ (marks'[x].at = "sent" => e[x].at > 0)
    BY <1>4, <1>7, <2>2
  <2> QED BY <2>1, <2>2, <2>3 DEF MarksInv
<1> QED BY <1>2, <1>5, <1>8, <1>9 DEF FeedInv

LEMMA StepFeed == ASSUME FeedInv, [F!FeedNext]_F!alarms PROVE FeedInv'
<1>1. ASSUME NEW id \in Episodes,
             (\E at \in Moments : F!Raise(id, at)) \/ F!Clear(id) \/ F!AckByOther(id)
      PROVE  FeedInv'
  BY <1>1, TableHolds
<1>2. ASSUME NEW id \in Episodes, F!AckServed(id) PROVE FeedInv'
  BY <1>2, AckServedHolds
<1>3. ASSUME NEW id \in Episodes, F!Ack(id) \/ F!AckSucceeds(id) \/ F!AckFails(id) PROVE FeedInv'
  BY <1>3, AckHolds
<1>4. CASE F!Reload \/ F!LoadMore \/ F!FetchFails \/ F!Resync \/ F!Deliver
  BY <1>4, ReadsHold
<1>5. CASE F!ReadPage
  BY <1>5, ReadPageHolds
<1>6. CASE F!PatchAlarm
  BY <1>6, PatchAlarmHolds
<1>7. CASE UNCHANGED F!alarms
  <2>1. UNCHANGED <<episode, filter, frames, feed, fetch, marks>>
    BY <1>7 DEF F!alarms
  <2> QED BY <2>1, ScreenMoves DEF FeedInv
<1> QED BY <1>1, <1>2, <1>3, <1>4, <1>5, <1>6, <1>7 DEF F!FeedNext

LEMMA FeedSkipsNothing == ASSUME FeedInv, "cleared" \notin Filters PROVE F!NothingSkipped
<1>1. Good(feed, episode, filter) /\ filter # "cleared" /\ feed.stood \in SUBSET Episodes
  BY DEF FeedInv, Good, Feeds
<1> SUFFICES ASSUME NEW id \in feed.stood, F!Fits(episode[id].active)
             PROVE  \/ F!Known(id)
                    \/ F!LastPage(feed).next # F!NoCursor
                       /\ F!Before(F!LastPage(feed).next, F!Position(id))
  BY DEF F!NothingSkipped
<1>2. FitsBy(filter, episode[id].active)
  BY DEF F!Fits, FitsBy
<1>3. CASE Reached(F!LastPage(feed).next, episode[id].at, id)
  <2>1. Shows(feed, id)
    BY <1>1, <1>2, <1>3 DEF Good
  <2> QED BY <2>1 DEF Shows, Holds, F!Known
<1>4. CASE ~Reached(F!LastPage(feed).next, episode[id].at, id)
  BY <1>4 DEF Reached, F!NoCursor, F!Position
<1> QED BY <1>3, <1>4

LEMMA FirstAckStep ==
  ASSUME FeedInv, [F!FeedNext]_F!alarms, NEW x \in Episodes, episode[x].acked # "nobody"
  PROVE  episode'[x].acked = episode[x].acked
<1>1. episode \in [Episodes -> EpisodeRows] /\ episode[x] \in EpisodeRows
  BY DEF FeedInv, TableInv
<1>2. CASE UNCHANGED episode
  BY <1>2
<1>3. ASSUME NEW id \in Episodes, \/ (\E at \in Moments : F!Raise(id, at)) \/ F!Clear(id)
                                  \/ F!AckByOther(id) \/ F!AckServed(id)
      PROVE  episode'[x].acked = episode[x].acked
  <2>1. CASE x # id
    BY <1>1, <1>3, <2>1 DEF F!Raise, F!Clear, F!AckByOther, F!AckServed
  <2>2. CASE x = id
    <3>1. episode[x].at \in Nat /\ episode[x].at # 0
      BY <1>1 DEF EpisodeRows, FeedInv, TableInv
    <3>2. ~\E at \in Moments : F!Raise(id, at)
      BY <2>2, <3>1 DEF F!Raise, F!Raised
    <3>3. CASE F!Clear(id)
      BY <1>1, <2>2, <3>3 DEF F!Clear, EpisodeRows
    <3>4. CASE F!AckByOther(id)
      BY <1>1, <2>2, <3>4 DEF F!AckByOther, F!AckedBy
    <3>5. CASE F!AckServed(id)
      BY <1>1, <2>2, <3>5 DEF F!AckServed, F!AckedBy
    <3> QED BY <1>3, <3>2, <3>3, <3>4, <3>5
  <2> QED BY <2>1, <2>2
<1>4. ASSUME \/ F!Reload \/ F!LoadMore \/ F!FetchFails \/ F!Resync \/ F!Deliver \/ F!ReadPage
             \/ F!PatchAlarm \/ UNCHANGED F!alarms
             \/ \E id \in Episodes : F!Ack(id) \/ F!AckSucceeds(id) \/ F!AckFails(id)
      PROVE  UNCHANGED episode
  BY <1>4 DEF F!Reload, F!LoadMore, F!FetchFails, F!Resync, F!Deliver, F!ReadPage, F!PatchAlarm,
    F!alarms, F!Ack, F!AckSucceeds, F!AckFails
<1> QED BY <1>2, <1>3, <1>4 DEF F!FeedNext
-------------------------------------------------------------------------------
(* The editing of rules: a save holds the locks of the rules it has        *)
(* entries for, and of the one it has written and not noted yet.           *)
Updates == [key : Keys, after : E!Rule]
Entries == [key : Keys, before : E!Rule, after : E!Rule]
SavePlaces == {"none", "read", "compare", "write", "note", "commit"}

Distinct(s) == \A i, j \in DOMAIN s : s[i].key = s[j].key => i = j
Names(s, k) == \E n \in DOMAIN s : s[n].key = k

SaveRecord(p, r, b, w, n) == [at |-> p, rest |-> r, before |-> b, written |-> w, entries |-> n]

SaveInv(t) ==
  /\ t = SaveRecord(t.at, t.rest, t.before, t.written, t.entries)
  /\ t.at \in SavePlaces /\ t.rest \in Seq(Updates) /\ t.entries \in Seq(Entries)
  /\ t.at \in {"read", "compare", "write", "note"} => t.rest # <<>>
  /\ t.at \in {"compare", "write", "note", "commit"} => t.before \in [Keys -> E!Rule]
  /\ Distinct(t.rest) /\ Distinct(t.entries)
  /\ \A k \in Keys : ~(Names(t.rest, k) /\ Names(t.entries, k))
  /\ \A k \in DOMAIN t.written : k \in Keys /\ t.written[k] \in E!Rule
  /\ \A k \in Keys : k \in DOMAIN t.written <=>
                       Names(t.entries, k) \/ (t.at = "note" /\ t.rest[1].key = k)
  /\ \A n \in DOMAIN t.entries : t.written[t.entries[n].key] = t.entries[n].after
  /\ t.at = "note" => t.written[t.rest[1].key] = t.rest[1].after

LastSays(k) ==
  \/ table[k] = E!FirstRule /\ \A n \in DOMAIN journal : journal[n].key # k
  \/ \E n \in DOMAIN journal :
       /\ journal[n].key = k /\ table[k] = journal[n].after
       /\ \A m \in DOMAIN journal : journal[m].key = k => m <= n

RulesInv ==
  /\ table \in [Keys -> E!Rule] /\ journal \in Seq(Entries)
  /\ shown \in [Editors -> [Keys -> E!Rule]]
  /\ DOMAIN drafts = Editors /\ DOMAIN tx = Editors
  /\ \A e \in Editors : \A k \in DOMAIN drafts[e] : k \in Keys /\ drafts[e][k] \in E!Rule
  /\ \A e \in Editors : SaveInv(tx[e])
  /\ E!OneWriter
  /\ \A k \in Keys : LastSays(k)

-------------------------------------------------------------------------------
LEMMA NoSaveIs == SaveInv(E!NoSave) /\ DOMAIN E!NoSave.written = {}
<1>1. <<>> \in Seq(Updates) /\ <<>> \in Seq(Entries) /\ DOMAIN <<>> = {}
  OBVIOUS
<1> QED BY <1>1 DEF SaveInv, SaveRecord, E!NoSave, SavePlaces, Distinct, Names

LEMMA RulesStart == ASSUME E!RulesInit PROVE RulesInv
<1>1. E!FirstRule \in E!Rule /\ [E!FirstRule EXCEPT !.min = 1] \in E!Rule
  BY DEF E!FirstRule, E!Rule, E!Fields
<1>2. table \in [Keys -> E!Rule] /\ journal \in Seq(Entries) /\ journal = <<>>
      /\ shown \in [Editors -> [Keys -> E!Rule]]
  BY <1>1 DEF E!RulesInit
<1>3. /\ DOMAIN drafts = Editors /\ DOMAIN tx = Editors
      /\ \A e \in Editors : tx[e] = E!NoSave
  BY DEF E!RulesInit
<1>4. \A e \in Editors : \A k \in DOMAIN drafts[e] : k \in Keys /\ drafts[e][k] \in E!Rule
  <2> SUFFICES ASSUME NEW e \in Editors, NEW k \in DOMAIN drafts[e]
               PROVE  k \in Keys /\ drafts[e][k] \in E!Rule
    OBVIOUS
  <2>1. drafts[e] \in {E!NoDrafts, [x \in Keys |-> [E!FirstRule EXCEPT !.min = 1]]}
    BY DEF E!RulesInit
  <2>2. DOMAIN E!NoDrafts = {}
    BY DEF E!NoDrafts
  <2> QED BY <1>1, <2>1, <2>2
<1>5. \A e \in Editors : SaveInv(tx[e])
  BY <1>3, NoSaveIs
<1>6. E!OneWriter
  BY <1>3, NoSaveIs DEF E!OneWriter, E!Locks
<1>7. \A k \in Keys : LastSays(k)
  BY <1>2 DEF E!RulesInit, LastSays
<1> QED BY <1>2, <1>3, <1>4, <1>5, <1>6, <1>7 DEF RulesInv

LEMMA RulesGive == ASSUME RulesInv PROVE E!RulesAreKept
<1>1. E!RulesTypeOK
  <2>1. \A n \in DOMAIN journal : journal[n] \in Entries
    BY DEF RulesInv
  <2> QED BY <2>1 DEF RulesInv, E!RulesTypeOK, Entries
<1>2. E!RuleIsItsLastEntry
  <2> SUFFICES ASSUME NEW k \in Keys
               PROVE  table[k] = IF E!EntriesOf(k) = {} THEN E!FirstRule
                                 ELSE journal[E!LastOf(k)].after
    BY DEF E!RuleIsItsLastEntry
  <2>1. CASE table[k] = E!FirstRule /\ \A n \in DOMAIN journal : journal[n].key # k
    <3>1. E!EntriesOf(k) = {}
      BY <2>1 DEF E!EntriesOf
    <3> QED BY <2>1, <3>1
  <2>2. ASSUME NEW n \in DOMAIN journal,
               journal[n].key = k, table[k] = journal[n].after,
               \A m \in DOMAIN journal : journal[m].key = k => m <= n
        PROVE  table[k] = journal[E!LastOf(k)].after /\ E!EntriesOf(k) # {}
    <3>1. n \in E!EntriesOf(k) /\ \A other \in E!EntriesOf(k) : other <= n
      BY <2>2 DEF E!EntriesOf
    <3>2. \A m \in DOMAIN journal : m \in Nat
      BY DEF RulesInv
    <3>3. /\ E!LastOf(k) \in E!EntriesOf(k)
          /\ \A other \in E!EntriesOf(k) : other <= E!LastOf(k)
      BY <3>1 DEF E!LastOf
    <3>4. E!LastOf(k) \in DOMAIN journal
      BY <3>3 DEF E!EntriesOf
    <3>5. E!LastOf(k) <= n /\ n <= E!LastOf(k) /\ E!LastOf(k) \in Nat /\ n \in Nat
      BY <3>1, <3>2, <3>3, <3>4
    <3>6. \A a, b \in Nat : a <= b /\ b <= a => a = b
      OBVIOUS
    <3>7. E!LastOf(k) = n
      BY <3>5, <3>6
    <3> QED BY <2>2, <3>1, <3>7
  <2>3. LastSays(k)
    BY DEF RulesInv
  <2> QED BY <2>1, <2>2, <2>3 DEF LastSays
<1> QED BY <1>1, <1>2 DEF E!RulesAreKept, RulesInv

(* A step of one save that takes no lock, or one nobody holds. *)
LEMMA SaveMoves ==
  ASSUME RulesInv, NEW e \in Editors, NEW t, tx' = [tx EXCEPT ![e] = t], SaveInv(t),
         \A k \in DOMAIN t.written : k \in E!Locks(e) \/ ~E!LockedByOther(e, k),
         UNCHANGED <<table, journal, shown, drafts>>
  PROVE  RulesInv'
<1>1. DOMAIN tx' = Editors /\ tx'[e] = t /\ \A x \in Editors : x # e => tx'[x] = tx[x]
  BY DEF RulesInv
<1>2. \A x \in Editors : SaveInv(tx[x])'
  <2>1. ASSUME NEW x \in Editors PROVE SaveInv(tx'[x])
    BY <1>1, <2>1 DEF RulesInv
  <2>2. PICK all : all = tx'
    OBVIOUS
  <2>3. \A x \in Editors : SaveInv(all[x])
    BY <2>1, <2>2
  <2> QED BY <2>2, <2>3 DEF SaveInv, Distinct, Names
<1>3. E!OneWriter'
  <2>1. \A x \in Editors : x # e => DOMAIN t.written \cap E!Locks(x) = {}
    BY DEF E!LockedByOther, RulesInv, E!OneWriter
  <2>2. \A x, y \in Editors : x # y => DOMAIN tx'[x].written \cap DOMAIN tx'[y].written = {}
    BY <1>1, <2>1 DEF RulesInv, E!OneWriter, E!Locks
  <2> QED BY <2>2 DEF E!OneWriter, E!Locks
<1>4. \A k \in Keys : LastSays(k)'
  BY DEF RulesInv, LastSays
<1> QED BY <1>1, <1>2, <1>3, <1>4 DEF RulesInv

LEMMA PassedOver ==
  ASSUME NEW M, NEW s \in Seq(M), s # <<>>, Distinct(s)
  PROVE  /\ Tail(s) \in Seq(M) /\ Distinct(Tail(s)) /\ Names(s, s[1].key)
         /\ Len(s) > 1 => Tail(s) # <<>>
         /\ \A k : Names(Tail(s), k) <=> Names(s, k) /\ k # s[1].key
<1>1. /\ Tail(s) \in Seq(M) /\ Len(Tail(s)) = Len(s) - 1 /\ Len(s) \in Nat \ {0}
      /\ DOMAIN s = 1..Len(s) /\ DOMAIN Tail(s) = 1..Len(Tail(s)) /\ 1 \in DOMAIN s
      /\ \A n \in DOMAIN Tail(s) : n + 1 \in DOMAIN s /\ Tail(s)[n] = s[n + 1] /\ n \in Nat /\ n # 0
  OBVIOUS
<1>2. Distinct(Tail(s))
  <2> SUFFICES ASSUME NEW i \in DOMAIN Tail(s), NEW j \in DOMAIN Tail(s),
                      Tail(s)[i].key = Tail(s)[j].key
               PROVE  i = j
    BY DEF Distinct
  <2>1. s[i + 1].key = s[j + 1].key /\ i + 1 \in DOMAIN s /\ j + 1 \in DOMAIN s
    BY <1>1
  <2>2. i + 1 = j + 1
    BY <2>1 DEF Distinct
  <2> QED BY <1>1, <2>2
<1>3. ASSUME NEW k, Names(Tail(s), k) PROVE Names(s, k) /\ k # s[1].key
  <2>1. PICK n \in DOMAIN Tail(s) : Tail(s)[n].key = k
    BY <1>3 DEF Names
  <2>2. n + 1 \in DOMAIN s /\ s[n + 1].key = k /\ n + 1 # 1
    BY <1>1, <2>1
  <2> QED BY <1>1, <2>2 DEF Names, Distinct
<1>4. ASSUME NEW k, Names(s, k), k # s[1].key PROVE Names(Tail(s), k)
  <2>1. PICK n \in DOMAIN s : s[n].key = k
    BY <1>4 DEF Names
  <2>2. n # 1
    BY <1>4, <2>1
  <2>3. n - 1 \in DOMAIN Tail(s)
    BY <1>1, <2>2
  <2>4. Tail(s)[n - 1] = s[n]
    BY <1>1, <2>3
  <2> QED BY <2>1, <2>3, <2>4 DEF Names
<1>5. Names(s, s[1].key)
  BY <1>1 DEF Names
<1>6. Len(s) > 1 => Tail(s) # <<>>
  BY <1>1
<1> QED BY <1>1, <1>2, <1>3, <1>4, <1>5, <1>6

LEMMA NotedDown ==
  ASSUME NEW M, NEW s \in Seq(M), NEW x \in M, Distinct(s), ~Names(s, x.key)
  PROVE  /\ Append(s, x) \in Seq(M) /\ Distinct(Append(s, x))
         /\ \A k : Names(Append(s, x), k) <=> Names(s, k) \/ k = x.key
         /\ \A n \in DOMAIN Append(s, x) : Append(s, x)[n] = x \/ (n \in DOMAIN s /\ Append(s, x)[n] = s[n])
<1>1. /\ Append(s, x) \in Seq(M) /\ DOMAIN s = 1..Len(s) /\ DOMAIN Append(s, x) = 1..Len(s) + 1
      /\ \A n \in DOMAIN s : n \in DOMAIN Append(s, x) /\ Append(s, x)[n] = s[n]
      /\ Len(s) + 1 \in DOMAIN Append(s, x) /\ Append(s, x)[Len(s) + 1] = x
      /\ \A n \in DOMAIN Append(s, x) : n = Len(s) + 1 \/ n \in DOMAIN s
  OBVIOUS
<1>2. Distinct(Append(s, x))
  BY <1>1 DEF Distinct, Names
<1>3. \A k : Names(Append(s, x), k) <=> Names(s, k) \/ k = x.key
  BY <1>1 DEF Names
<1> QED BY <1>1, <1>2, <1>3

(* A save is told by its parts. *)
LEMMA SameParts ==
  ASSUME NEW p, NEW r, NEW b, NEW w, NEW n, NEW u,
         DOMAIN u = {"at", "rest", "before", "written", "entries"}, u = [x \in DOMAIN u |-> u[x]],
         u.at = p, u.rest = r, u.before = b, u.written = w, u.entries = n
  PROVE  u = SaveRecord(p, r, b, w, n)
<1>1. PICK t : t = SaveRecord(p, r, b, w, n)
  OBVIOUS
<1>2. DOMAIN t = DOMAIN u /\ t = [x \in DOMAIN t |-> t[x]]
  BY <1>1 DEF SaveRecord
<1>3. \A x \in DOMAIN u : t[x] = u[x]
  BY <1>1 DEF SaveRecord
<1> QED BY <1>1, <1>2, <1>3

(* What the steps change of a save. *)
LEMMA SaveChanged ==
  ASSUME NEW s, s = SaveRecord(s.at, s.rest, s.before, s.written, s.entries),
         NEW p, NEW r, NEW b, NEW w, NEW n
  PROVE  /\ [s EXCEPT !.at = p] = SaveRecord(p, s.rest, s.before, s.written, s.entries)
         /\ [s EXCEPT !.before = b, !.at = p] = SaveRecord(p, s.rest, b, s.written, s.entries)
         /\ [s EXCEPT !.written = w, !.at = p] = SaveRecord(p, s.rest, s.before, w, s.entries)
         /\ [s EXCEPT !.rest = r, !.at = p] = SaveRecord(p, r, s.before, s.written, s.entries)
         /\ [s EXCEPT !.at = p, !.rest = r] = SaveRecord(p, r, s.before, s.written, s.entries)
         /\ [s EXCEPT !.entries = n] = SaveRecord(s.at, s.rest, s.before, s.written, n)
<1>1. DOMAIN s = {"at", "rest", "before", "written", "entries"}
  BY DEF SaveRecord
<1>2. [s EXCEPT !.at = p] = SaveRecord(p, s.rest, s.before, s.written, s.entries)
  <2>1. PICK u : u = [s EXCEPT !.at = p]
    OBVIOUS
  <2>2. DOMAIN u = {"at", "rest", "before", "written", "entries"} /\ u = [x \in DOMAIN u |-> u[x]]
    BY ONLY <1>1, <2>1
  <2>3. u.at = p /\ u.rest = s.rest /\ u.before = s.before /\ u.written = s.written /\ u.entries = s.entries
    BY ONLY <1>1, <2>1
  <2>4. u = SaveRecord(p, s.rest, s.before, s.written, s.entries)
    BY ONLY <2>2, <2>3, SameParts
  <2> QED BY ONLY <2>1, <2>4
<1>3. [s EXCEPT !.before = b, !.at = p] = SaveRecord(p, s.rest, b, s.written, s.entries)
  <2>1. PICK u : u = [s EXCEPT !.before = b, !.at = p]
    OBVIOUS
  <2>2. DOMAIN u = {"at", "rest", "before", "written", "entries"} /\ u = [x \in DOMAIN u |-> u[x]]
    BY ONLY <1>1, <2>1
  <2>3. u.at = p /\ u.rest = s.rest /\ u.before = b /\ u.written = s.written /\ u.entries = s.entries
    BY ONLY <1>1, <2>1
  <2>4. u = SaveRecord(p, s.rest, b, s.written, s.entries)
    BY ONLY <2>2, <2>3, SameParts
  <2> QED BY ONLY <2>1, <2>4
<1>4. [s EXCEPT !.written = w, !.at = p] = SaveRecord(p, s.rest, s.before, w, s.entries)
  <2>1. PICK u : u = [s EXCEPT !.written = w, !.at = p]
    OBVIOUS
  <2>2. DOMAIN u = {"at", "rest", "before", "written", "entries"} /\ u = [x \in DOMAIN u |-> u[x]]
    BY ONLY <1>1, <2>1
  <2>3. u.at = p /\ u.rest = s.rest /\ u.before = s.before /\ u.written = w /\ u.entries = s.entries
    BY ONLY <1>1, <2>1
  <2>4. u = SaveRecord(p, s.rest, s.before, w, s.entries)
    BY ONLY <2>2, <2>3, SameParts
  <2> QED BY ONLY <2>1, <2>4
<1>5. [s EXCEPT !.rest = r, !.at = p] = SaveRecord(p, r, s.before, s.written, s.entries)
  <2>1. PICK u : u = [s EXCEPT !.rest = r, !.at = p]
    OBVIOUS
  <2>2. DOMAIN u = {"at", "rest", "before", "written", "entries"} /\ u = [x \in DOMAIN u |-> u[x]]
    BY ONLY <1>1, <2>1
  <2>3. u.at = p /\ u.rest = r /\ u.before = s.before /\ u.written = s.written /\ u.entries = s.entries
    BY ONLY <1>1, <2>1
  <2>4. u = SaveRecord(p, r, s.before, s.written, s.entries)
    BY ONLY <2>2, <2>3, SameParts
  <2> QED BY ONLY <2>1, <2>4
<1>6. [s EXCEPT !.at = p, !.rest = r] = SaveRecord(p, r, s.before, s.written, s.entries)
  <2>1. PICK u : u = [s EXCEPT !.at = p, !.rest = r]
    OBVIOUS
  <2>2. DOMAIN u = {"at", "rest", "before", "written", "entries"} /\ u = [x \in DOMAIN u |-> u[x]]
    BY ONLY <1>1, <2>1
  <2>3. u.at = p /\ u.rest = r /\ u.before = s.before /\ u.written = s.written /\ u.entries = s.entries
    BY ONLY <1>1, <2>1
  <2>4. u = SaveRecord(p, r, s.before, s.written, s.entries)
    BY ONLY <2>2, <2>3, SameParts
  <2> QED BY ONLY <2>1, <2>4
<1>7. [s EXCEPT !.entries = n] = SaveRecord(s.at, s.rest, s.before, s.written, n)
  <2>1. PICK u : u = [s EXCEPT !.entries = n]
    OBVIOUS
  <2>2. DOMAIN u = {"at", "rest", "before", "written", "entries"} /\ u = [x \in DOMAIN u |-> u[x]]
    BY ONLY <1>1, <2>1
  <2>3. u.at = s.at /\ u.rest = s.rest /\ u.before = s.before /\ u.written = s.written /\ u.entries = n
    BY ONLY <1>1, <2>1
  <2>4. u = SaveRecord(s.at, s.rest, s.before, s.written, n)
    BY ONLY <2>2, <2>3, SameParts
  <2> QED BY ONLY <2>1, <2>4
<1> QED BY <1>2, <1>3, <1>4, <1>5, <1>6, <1>7

LEMMA CountedAlike == ASSUME NEW M PROVE E!Cardinality(M) = Cardinality(M)
BY DEF E!Cardinality, Cardinality

LEMMA SaveParts ==
  ASSUME NEW t, SaveInv(t)
  PROVE  t = SaveRecord(t.at, t.rest, t.before, t.written, t.entries)
BY DEF SaveInv

LEMMA RecordParts ==
  ASSUME NEW p, NEW r, NEW b, NEW w, NEW n, NEW t, t = SaveRecord(p, r, b, w, n)
  PROVE  /\ t = SaveRecord(t.at, t.rest, t.before, t.written, t.entries)
         /\ t.at = p /\ t.rest = r /\ t.before = b /\ t.written = w /\ t.entries = n
BY DEF SaveRecord

LEMMA SaveOf ==
  ASSUME RulesInv, NEW e \in Editors
  PROVE  SaveInv(tx[e])
BY DEF RulesInv

(* The screens: fields edited, drafts dropped, rules read. *)
LEMMA ScreensHold ==
  ASSUME RulesInv, NEW e \in Editors,
         (\E k \in Keys, field \in E!Fields : E!Edit(e, k, field)) \/ E!Reset(e) \/ E!Reopen(e)
  PROVE  RulesInv'
<1>1. UNCHANGED <<table, journal, tx>>
  BY DEF E!Edit, E!Reset, E!Reopen
<1>2. shown' \in [Editors -> [Keys -> E!Rule]]
  BY DEF RulesInv, E!Edit, E!Reset, E!Reopen
<1>3. \E d : /\ drafts' = [drafts EXCEPT ![e] = d]
             /\ \A k \in DOMAIN d : k \in Keys /\ d[k] \in E!Rule
  <2>1. CASE E!Reset(e) \/ E!Reopen(e)
    <3>1. drafts' = [drafts EXCEPT ![e] = E!NoDrafts] /\ DOMAIN E!NoDrafts = {}
      BY <2>1 DEF E!Reset, E!Reopen, E!NoDrafts
    <3> QED BY <3>1
  <2>2. CASE \E k \in Keys, field \in E!Fields : E!Edit(e, k, field)
    <3>1. PICK k \in Keys, field \in E!Fields : E!Edit(e, k, field)
      BY <2>2
    <3>2. PICK current : current = IF k \in DOMAIN drafts[e] THEN drafts[e][k] ELSE shown[e][k]
      OBVIOUS
    <3>3. current \in E!Rule
      BY <3>2 DEF RulesInv
    <3>4. PICK new : new = [current EXCEPT ![field] = 1 - @]
      OBVIOUS
    <3>5. new \in E!Rule
      <4>1. current[field] \in {0, 1}
        BY <3>1, <3>3 DEF E!Rule
      <4>2. 1 - current[field] \in {0, 1}
        BY <4>1
      <4> QED BY <3>3, <3>4, <4>2 DEF E!Rule
    <3>6. PICK d : d = E!With(drafts[e], k, new)
      OBVIOUS
    <3>7. drafts' = [drafts EXCEPT ![e] = d]
      BY <3>1, <3>2, <3>4, <3>6 DEF E!Edit, RulesInv
    <3>8. DOMAIN d = DOMAIN drafts[e] \cup {k}
          /\ \A x \in DOMAIN d : d[x] = IF x = k THEN new ELSE drafts[e][x]
      BY <3>6 DEF E!With
    <3>9. \A x \in DOMAIN d : x \in Keys /\ d[x] \in E!Rule
      BY <3>1, <3>5, <3>8 DEF RulesInv
    <3> QED BY <3>7, <3>9
  <2> QED BY <2>1, <2>2
<1>4. /\ DOMAIN drafts' = Editors
      /\ \A x \in Editors : \A k \in DOMAIN drafts'[x] : k \in Keys /\ drafts'[x][k] \in E!Rule
  BY <1>3 DEF RulesInv
<1>5. (\A x \in Editors : SaveInv(tx[x]))' /\ E!OneWriter' /\ (\A k \in Keys : LastSays(k))'
  BY <1>1 DEF RulesInv, SaveInv, Distinct, Names, E!OneWriter, E!Locks, LastSays
<1> QED BY <1>1, <1>2, <1>4, <1>5 DEF RulesInv

LEMMA SaveHolds == ASSUME RulesInv, NEW e \in Editors, E!Save(e) PROVE RulesInv'
<1>1. PICK order \in E!Orders(E!TouchedKeys(e)) :
        tx' = [tx EXCEPT ![e] = [E!NoSave EXCEPT !.at = "read", !.rest =
                [i \in DOMAIN order |-> [key |-> order[i], after |-> drafts[e][order[i]]]]]]
  BY DEF E!Save
<1>2. PICK keys : keys = E!TouchedKeys(e)
  OBVIOUS
<1>3. keys \subseteq Keys /\ keys # {} /\ \A k \in keys : drafts[e][k] \in E!Rule
  BY <1>2 DEF RulesInv, E!TouchedKeys, E!Save
<1>4. Cardinality(keys) \in Nat /\ Cardinality(keys) # 0
  <2>1. IsFiniteSet(keys)
    BY <1>3, FS_Subset, EndsAssumption DEF EndsAssumption
  <2> QED BY <1>3, <2>1, FS_CardinalityType, FS_EmptySet
<1>5. /\ order \in [1..Cardinality(keys) -> keys]
      /\ \A i, j \in DOMAIN order : order[i] = order[j] => i = j
  BY <1>2, CountedAlike DEF E!Orders
<1>6. PICK rest : rest = [i \in DOMAIN order |-> [key |-> order[i], after |-> drafts[e][order[i]]]]
  OBVIOUS
<1>7. \A i \in DOMAIN order : rest[i] \in Updates /\ rest[i].key = order[i]
  BY <1>3, <1>5, <1>6 DEF Updates
<1>8. rest \in Seq(Updates) /\ rest # <<>> /\ Distinct(rest)
  <2>1. DOMAIN rest = 1..Cardinality(keys) /\ DOMAIN order = 1..Cardinality(keys)
    BY <1>5, <1>6
  <2>2. rest \in Seq(Updates) /\ Len(rest) = Cardinality(keys)
    BY <1>4, <1>6, <1>7, <2>1
  <2>3. rest # <<>>
    BY <1>4, <2>2
  <2> QED BY <1>5, <1>7, <2>1, <2>2, <2>3 DEF Distinct
<1>9. PICK t : t = SaveRecord("read", rest, <<>>, <<>>, <<>>)
  OBVIOUS
<1>13. /\ t = SaveRecord(t.at, t.rest, t.before, t.written, t.entries)
        /\ t.at = "read" /\ t.rest = rest /\ t.before = <<>>
        /\ t.written = <<>> /\ t.entries = <<>>
  BY <1>9, RecordParts
<1>10. tx' = [tx EXCEPT ![e] = t] /\ UNCHANGED <<table, journal, shown, drafts>>
  <2>1. PICK s : s = E!NoSave
    OBVIOUS
  <2>2. s.before = <<>> /\ s.written = <<>> /\ s.entries = <<>>
        /\ s = SaveRecord(s.at, s.rest, s.before, s.written, s.entries)
    BY <2>1 DEF E!NoSave, SaveRecord
  <2>4. [s EXCEPT !.at = "read", !.rest = rest]
          = SaveRecord("read", rest, s.before, s.written, s.entries)
    BY <2>2, SaveChanged
  <2>3. t = [s EXCEPT !.at = "read", !.rest = rest]
    BY <1>9, <2>2, <2>4
  <2> QED BY <1>1, <1>6, <2>1, <2>3 DEF E!Save
<1>11. /\ t.at = "read" /\ t.rest = rest /\ t.entries = <<>> /\ t.written = <<>> /\ t.before = <<>>
       /\ DOMAIN t.written = {} /\ DOMAIN t.entries = {} /\ t.entries \in Seq(Entries)
  BY <1>13
<1>12. SaveInv(t)
  BY <1>8, <1>11, <1>13 DEF SaveInv, SavePlaces, Distinct, Names
<1> QED BY <1>10, <1>11, <1>12, SaveMoves

LEMMA QuietSteps ==
  ASSUME RulesInv, NEW e \in Editors,
         E!ReadBefore(e) \/ E!Compare(e) \/ E!Fails(e) \/ E!BreakDeadlock(e)
  PROVE  RulesInv'
<1>1. SaveInv(tx[e]) /\ table \in [Keys -> E!Rule] /\ UNCHANGED <<table, journal, shown, drafts>>
  BY SaveOf DEF RulesInv, E!ReadBefore, E!Compare, E!Fails, E!BreakDeadlock, E!RolledBack
<1>2. CASE E!Fails(e) \/ E!BreakDeadlock(e)
  <2>1. tx' = [tx EXCEPT ![e] = E!NoSave]
    BY <1>2 DEF E!Fails, E!BreakDeadlock, E!RolledBack
  <2> QED BY <1>1, <2>1, NoSaveIs, SaveMoves
<1>3. PICK s : s = tx[e]
  OBVIOUS
<1>4. SaveInv(s) /\ \A k \in DOMAIN s.written : k \in E!Locks(e)
  BY <1>1, <1>3 DEF E!Locks
<1>8. s = SaveRecord(s.at, s.rest, s.before, s.written, s.entries)
  BY <1>4, SaveParts
<1>5. CASE E!ReadBefore(e)
  <2>1. PICK t : t = SaveRecord("compare", s.rest, table, s.written, s.entries)
    OBVIOUS
  <2>5. /\ t = SaveRecord(t.at, t.rest, t.before, t.written, t.entries)
        /\ t.at = "compare" /\ t.rest = s.rest /\ t.before = table
        /\ t.written = s.written /\ t.entries = s.entries
    BY <2>1, RecordParts
  <2>2. s.at = "read" /\ t = [s EXCEPT !.before = table, !.at = "compare"]
    <3>1. s.at = "read"
      BY <1>3, <1>5 DEF E!ReadBefore
    <3>2. PICK all : all = table
      OBVIOUS
    <3>3. [s EXCEPT !.before = all, !.at = "compare"]
            = SaveRecord("compare", s.rest, all, s.written, s.entries)
      BY ONLY <1>8, SaveChanged
    <3> QED BY <2>1, <3>1, <3>2, <3>3
  <2>3. tx' = [tx EXCEPT ![e] = t]
    BY <1>3, <1>5, <2>2 DEF E!ReadBefore, RulesInv
  <2>4. SaveInv(t)
    BY <1>1, <1>4, <2>2, <2>5 DEF SaveInv, SavePlaces
  <2> QED BY <1>1, <1>4, <2>3, <2>4, <2>5, SaveMoves
<1>6. CASE E!Compare(e) /\ s.before[s.rest[1].key] # s.rest[1].after
  <2>1. PICK t : t = SaveRecord("write", s.rest, s.before, s.written, s.entries)
    OBVIOUS
  <2>5. /\ t = SaveRecord(t.at, t.rest, t.before, t.written, t.entries)
        /\ t.at = "write" /\ t.rest = s.rest /\ t.before = s.before
        /\ t.written = s.written /\ t.entries = s.entries
    BY <2>1, RecordParts
  <2>2. s.at = "compare" /\ t = [s EXCEPT !.at = "write"]
    <3>1. s.at = "compare"
      BY <1>3, <1>6 DEF E!Compare
    <3>2. t = [s EXCEPT !.at = "write"]
      BY <1>8, <2>1, SaveChanged
    <3> QED BY <3>1, <3>2
  <2>3. tx' = [tx EXCEPT ![e] = t]
    BY <1>3, <1>6, <2>2 DEF E!Compare, RulesInv
  <2>4. SaveInv(t)
    BY <1>4, <2>2, <2>5 DEF SaveInv, SavePlaces
  <2> QED BY <1>1, <1>4, <2>3, <2>4, <2>5, SaveMoves
<1>7. CASE E!Compare(e) /\ s.before[s.rest[1].key] = s.rest[1].after
  <2>1. PICK t : t = SaveRecord(E!Next(e), Tail(s.rest), s.before, s.written, s.entries)
    OBVIOUS
  <2>5. /\ t = SaveRecord(t.at, t.rest, t.before, t.written, t.entries)
        /\ t.at = E!Next(e) /\ t.rest = Tail(s.rest) /\ t.before = s.before
        /\ t.written = s.written /\ t.entries = s.entries
    BY <2>1, RecordParts
  <2>2. s.at = "compare" /\ t = E!Passed(e)
    <3>1. s.at = "compare"
      BY <1>3, <1>7 DEF E!Compare
    <3>2. PICK next : next = E!Next(e)
      OBVIOUS
    <3>3. t = [s EXCEPT !.rest = Tail(s.rest), !.at = next]
      BY <1>8, <2>1, <3>2, SaveChanged
    <3> QED BY <1>3, <3>1, <3>2, <3>3 DEF E!Passed
  <2>3. tx' = [tx EXCEPT ![e] = t]
    BY <1>3, <1>7, <2>2 DEF E!Compare, RulesInv
  <2>4. SaveInv(t)
    <3>1. /\ Tail(s.rest) \in Seq(Updates) /\ Distinct(Tail(s.rest))
          /\ Len(s.rest) > 1 => Tail(s.rest) # <<>>
          /\ \A k : Names(Tail(s.rest), k) => Names(s.rest, k)
      <4>1. s.rest \in Seq(Updates) /\ s.rest # <<>> /\ Distinct(s.rest)
        BY <1>4, <2>2 DEF SaveInv
      <4> QED BY <4>1, PassedOver
    <3>2. t.at \in {"compare", "commit"} /\ (t.at = "compare" => t.rest # <<>>)
      BY <1>3, <2>5, <3>1 DEF E!Next
    <3> QED BY <1>4, <2>2, <2>5, <3>1, <3>2 DEF SaveInv, SavePlaces
  <2> QED BY <1>1, <1>4, <2>3, <2>4, <2>5, SaveMoves
<1> QED BY <1>2, <1>5, <1>6, <1>7

LEMMA WriteHolds == ASSUME RulesInv, NEW e \in Editors, E!Write(e) PROVE RulesInv'
<1>1. PICK s : s = tx[e]
  OBVIOUS
<1>2. SaveInv(s) /\ s.at = "write" /\ s.rest # <<>> /\ s.rest[1] \in Updates
      /\ UNCHANGED <<table, journal, shown, drafts>>
  <2>1. SaveInv(s) /\ s.at = "write" /\ UNCHANGED <<table, journal, shown, drafts>>
    BY <1>1, SaveOf DEF E!Write
  <2>2. s.rest \in Seq(Updates) /\ s.rest # <<>>
    BY <2>1 DEF SaveInv
  <2>3. s.rest[1] \in Updates
    BY <2>2
  <2> QED BY <2>1, <2>2, <2>3
<1>3. PICK key, after : key = s.rest[1].key /\ after = s.rest[1].after
  OBVIOUS
<1>4. key \in Keys /\ after \in E!Rule /\ ~E!LockedByOther(e, key)
  BY <1>1, <1>2, <1>3 DEF Updates, E!Write, E!Waits
<1>5. PICK w : w = E!With(s.written, key, after)
  OBVIOUS
<1>6. /\ DOMAIN w = DOMAIN s.written \cup {key}
      /\ \A x \in DOMAIN w : w[x] = IF x = key THEN after ELSE s.written[x]
  BY <1>5 DEF E!With
<1>7. PICK t : t = SaveRecord("note", s.rest, s.before, w, s.entries)
  OBVIOUS
<1>8. t = [s EXCEPT !.written = w, !.at = "note"]
  <2>1. s = SaveRecord(s.at, s.rest, s.before, s.written, s.entries)
    BY <1>2, SaveParts
  <2> QED BY <1>7, <2>1, SaveChanged
<1>9. tx' = [tx EXCEPT ![e] = t]
  <2>1. tx' = [tx EXCEPT ![e].written = E!With(tx[e].written, s.rest[1].key, s.rest[1].after),
                         ![e].at = "note"]
    BY <1>1 DEF E!Write, RulesInv
  <2> QED BY <1>1, <1>3, <1>5, <1>8, <2>1 DEF RulesInv
<1>10. ~Names(s.entries, key)
  <2>1. Names(s.rest, key)
    <3>1. 1 \in DOMAIN s.rest
      BY <1>2 DEF SaveInv
    <3> QED BY <1>3, <3>1 DEF Names
  <2> QED BY <1>2, <1>4, <2>1 DEF SaveInv
<1>13. /\ t = SaveRecord(t.at, t.rest, t.before, t.written, t.entries)
       /\ t.at = "note" /\ t.rest = s.rest /\ t.before = s.before /\ t.written = w
       /\ t.entries = s.entries
  BY <1>7, RecordParts
<1>11. SaveInv(t)
  <2>1. \A k \in DOMAIN t.written : k \in Keys /\ t.written[k] \in E!Rule
    BY <1>2, <1>4, <1>6, <1>13 DEF SaveInv
  <2>2. \A k \in Keys : k \in DOMAIN t.written <=>
                       Names(t.entries, k) \/ (t.at = "note" /\ t.rest[1].key = k)
    BY <1>2, <1>3, <1>6, <1>13 DEF SaveInv
  <2>3. \A n \in DOMAIN t.entries : t.written[t.entries[n].key] = t.entries[n].after
    <3> SUFFICES ASSUME NEW n \in DOMAIN s.entries
                 PROVE  w[s.entries[n].key] = s.entries[n].after
      BY <1>13
    <3>1. s.entries[n].key # key /\ Names(s.entries, s.entries[n].key)
      BY <1>10 DEF Names
    <3>2. s.entries[n].key \in Keys
      <4>1. s.entries[n] \in Entries
        BY <1>2 DEF SaveInv
      <4> QED BY <4>1 DEF Entries
    <3>3. s.entries[n].key \in DOMAIN s.written
      BY <1>2, <3>1, <3>2 DEF SaveInv
    <3> QED BY <1>2, <1>6, <3>1, <3>3 DEF SaveInv
  <2>4. t.written[t.rest[1].key] = t.rest[1].after
    BY <1>3, <1>6, <1>13
  <2> QED BY <1>2, <1>13, <2>1, <2>2, <2>3, <2>4 DEF SaveInv, SavePlaces
<1>12. \A k \in DOMAIN t.written : k \in E!Locks(e) \/ ~E!LockedByOther(e, k)
  BY <1>1, <1>4, <1>6, <1>13 DEF E!Locks
<1> QED BY <1>2, <1>9, <1>11, <1>12, SaveMoves

LEMMA NoteHolds == ASSUME RulesInv, NEW e \in Editors, E!Note(e) PROVE RulesInv'
<1>1. PICK s : s = tx[e]
  OBVIOUS
<1>2. SaveInv(s) /\ s.at = "note" /\ s.rest \in Seq(Updates) /\ s.rest # <<>> /\ Distinct(s.rest)
      /\ s.rest[1] \in Updates /\ UNCHANGED <<table, journal, shown, drafts>>
  <2>1. SaveInv(s) /\ s.at = "note" /\ UNCHANGED <<table, journal, shown, drafts>>
    BY <1>1, SaveOf DEF E!Note
  <2>2. s.rest \in Seq(Updates) /\ s.rest # <<>> /\ Distinct(s.rest)
    BY <2>1 DEF SaveInv
  <2>3. s.rest[1] \in Updates
    BY <2>2
  <2> QED BY <2>1, <2>2, <2>3
<1>3. PICK key, after, entry :
        key = s.rest[1].key /\ after = s.rest[1].after /\ entry = E!Entry(e, s.rest[1])
  OBVIOUS
<1>4. entry \in Entries /\ entry.key = key /\ entry.after = after /\ key \in Keys
  <2>1. key \in Keys /\ after \in E!Rule
    BY <1>2, <1>3 DEF Updates
  <2>2. s.before[key] \in E!Rule
    BY <1>2, <2>1 DEF SaveInv
  <2> QED BY <1>1, <1>3, <2>1, <2>2 DEF E!Entry, Entries
<1>5. /\ Tail(s.rest) \in Seq(Updates) /\ Distinct(Tail(s.rest)) /\ Names(s.rest, key)
      /\ Len(s.rest) > 1 => Tail(s.rest) # <<>>
      /\ \A k : Names(Tail(s.rest), k) <=> Names(s.rest, k) /\ k # key
  BY <1>2, <1>3, PassedOver
<1>6. s.entries \in Seq(Entries) /\ Distinct(s.entries) /\ ~Names(s.entries, key)
  BY <1>2, <1>4, <1>5 DEF SaveInv
<1>7. PICK all : all = Append(s.entries, entry)
  OBVIOUS
<1>8. /\ all \in Seq(Entries) /\ Distinct(all)
      /\ \A k : Names(all, k) <=> Names(s.entries, k) \/ k = key
      /\ \A n \in DOMAIN all : all[n] = entry \/ (n \in DOMAIN s.entries /\ all[n] = s.entries[n])
  BY <1>4, <1>6, <1>7, NotedDown
<1>9. PICK t : t = SaveRecord(E!Next(e), Tail(s.rest), s.before, s.written, all)
  OBVIOUS
<1>10. tx' = [tx EXCEPT ![e] = t]
  <2>1. s = SaveRecord(s.at, s.rest, s.before, s.written, s.entries)
    BY <1>2, SaveParts
  <2>2. PICK next : next = E!Next(e)
    OBVIOUS
  <2>3. PICK p : p = [s EXCEPT !.rest = Tail(s.rest), !.at = next]
    OBVIOUS
  <2>4. p = E!Passed(e)
    BY <1>1, <2>2, <2>3 DEF E!Passed
  <2>5. t = [p EXCEPT !.entries = all]
    <3>1. p = SaveRecord(next, Tail(s.rest), s.before, s.written, s.entries)
      BY <2>1, <2>3, SaveChanged
    <3>3. /\ p = SaveRecord(p.at, p.rest, p.before, p.written, p.entries)
          /\ p.at = next /\ p.rest = Tail(s.rest) /\ p.before = s.before /\ p.written = s.written
      BY <3>1, RecordParts
    <3>4. [p EXCEPT !.entries = all] = SaveRecord(p.at, p.rest, p.before, p.written, all)
      BY <3>3, SaveChanged
    <3>2. [p EXCEPT !.entries = all] = SaveRecord(next, Tail(s.rest), s.before, s.written, all)
      BY <3>3, <3>4
    <3> QED BY <1>9, <2>2, <3>2
  <2> QED BY <1>1, <1>3, <1>7, <2>4, <2>5 DEF E!Note
<1>14. /\ t = SaveRecord(t.at, t.rest, t.before, t.written, t.entries)
       /\ t.at = E!Next(e) /\ t.rest = Tail(s.rest) /\ t.before = s.before /\ t.written = s.written
       /\ t.entries = all
  BY <1>9, RecordParts
<1>11. t.at \in {"compare", "commit"} /\ (t.at = "compare" => t.rest # <<>>)
  BY <1>1, <1>5, <1>14 DEF E!Next
<1>12. SaveInv(t)
  <2>1. \A k \in Keys : ~(Names(t.rest, k) /\ Names(t.entries, k))
    BY <1>2, <1>5, <1>8, <1>14 DEF SaveInv
  <2>2. \A k \in Keys : k \in DOMAIN t.written <=> Names(t.entries, k)
    BY <1>2, <1>3, <1>8, <1>14 DEF SaveInv
  <2>3. \A n \in DOMAIN t.entries : t.written[t.entries[n].key] = t.entries[n].after
    <3> SUFFICES ASSUME NEW n \in DOMAIN all PROVE s.written[all[n].key] = all[n].after
      BY <1>14
    <3>1. CASE all[n] = entry
      BY <1>2, <1>3, <1>4, <3>1 DEF SaveInv
    <3>2. CASE n \in DOMAIN s.entries /\ all[n] = s.entries[n]
      BY <1>2, <3>2 DEF SaveInv
    <3> QED BY <1>8, <3>1, <3>2
  <2> QED BY <1>2, <1>5, <1>8, <1>14, <1>11, <2>1, <2>2, <2>3 DEF SaveInv, SavePlaces
<1>13. \A k \in DOMAIN t.written : k \in E!Locks(e)
  BY <1>1, <1>14 DEF E!Locks
<1> QED BY <1>2, <1>10, <1>12, <1>13, SaveMoves

(* Two sequences, one behind the other. *)
LEMMA JournalGrows ==
  ASSUME NEW M, NEW s \in Seq(M), NEW r \in Seq(M), NEW j, j = s \o r
  PROVE  /\ j \in Seq(M) /\ Len(s) \in Nat
         /\ \A n \in DOMAIN s : n \in DOMAIN j /\ j[n] = s[n] /\ n \in Nat /\ n <= Len(s)
         /\ \A n \in DOMAIN r : n \in Nat /\ Len(s) + n \in DOMAIN j /\ j[Len(s) + n] = r[n]
         /\ \A n \in DOMAIN j : \/ n \in DOMAIN s
                                \/ \E m \in DOMAIN r : n = Len(s) + m
<1>1. /\ j \in Seq(M) /\ Len(s) \in Nat /\ Len(r) \in Nat
      /\ DOMAIN s = 1..Len(s) /\ DOMAIN r = 1..Len(r) /\ DOMAIN j = 1..(Len(s) + Len(r))
  OBVIOUS
<1>2. \A n \in DOMAIN s : n \in DOMAIN j /\ j[n] = s[n] /\ n \in Nat /\ n <= Len(s)
  BY <1>1
<1>3. \A n \in DOMAIN r : n \in Nat /\ Len(s) + n \in DOMAIN j /\ j[Len(s) + n] = r[n]
  BY <1>1
<1>4. ASSUME NEW n \in DOMAIN j, n \notin DOMAIN s PROVE \E m \in DOMAIN r : n = Len(s) + m
  <2>1. n \in Nat /\ n > Len(s) /\ n <= Len(s) + Len(r)
    BY <1>1, <1>4
  <2>2. n - Len(s) \in DOMAIN r /\ n = Len(s) + (n - Len(s))
    BY <1>1, <2>1
  <2> QED BY <2>2
<1> QED BY <1>1, <1>2, <1>3, <1>4

(* The end of a save: its rules and their entries come into the tables     *)
(* together.                                                               *)
LEMMA CommitHolds ==
  ASSUME RulesInv, NEW e \in Editors, E!Commit(e) \/ E!CommitUnknown(e)
  PROVE  RulesInv'
<1>1. PICK s, noted, before : s = tx[e] /\ noted = s.entries /\ before = journal
  OBVIOUS
<1>2. SaveInv(s) /\ s.at = "commit" /\ noted \in Seq(Entries) /\ before \in Seq(Entries)
      /\ Distinct(noted) /\ table \in [Keys -> E!Rule]
  <2>1. SaveInv(s) /\ s.at = "commit"
    BY <1>1, SaveOf DEF E!Commit, E!CommitUnknown
  <2> QED BY <1>1, <2>1 DEF SaveInv, RulesInv
<1>3. /\ table' = [k \in Keys |-> IF k \in DOMAIN s.written THEN s.written[k] ELSE table[k]]
      /\ tx' = [tx EXCEPT ![e] = E!NoSave] /\ UNCHANGED drafts
  BY <1>1 DEF E!Commit, E!CommitUnknown, E!Committed, E!Seen, E!Locks
<1>4. PICK after : after = journal' /\ after = before \o noted
  BY <1>1 DEF E!Commit, E!CommitUnknown, E!Committed
<1>5. table' \in [Keys -> E!Rule]
  BY <1>2, <1>3 DEF SaveInv
<1>6. shown' \in [Editors -> [Keys -> E!Rule]]
  <2>1. CASE E!CommitUnknown(e)
    BY <2>1 DEF E!CommitUnknown, RulesInv
  <2>2. CASE E!Commit(e)
    <3>1. shown' = [shown EXCEPT ![e] = table']
      BY <2>2 DEF E!Commit, E!Committed
    <3> QED BY <1>5, <3>1 DEF RulesInv
  <2> QED BY <2>1, <2>2
<1>7. /\ after \in Seq(Entries) /\ Len(before) \in Nat
      /\ \A n \in DOMAIN before : n \in DOMAIN after /\ after[n] = before[n] /\ n \in Nat
                                  /\ n <= Len(before)
      /\ \A n \in DOMAIN noted : n \in Nat /\ Len(before) + n \in DOMAIN after
                                 /\ after[Len(before) + n] = noted[n]
      /\ \A n \in DOMAIN after : \/ n \in DOMAIN before
                                 \/ \E m \in DOMAIN noted : n = Len(before) + m
  <2>1. PICK M : M = Entries
    OBVIOUS
  <2>2. before \in Seq(M) /\ noted \in Seq(M) /\ after = before \o noted
    BY <1>2, <1>4, <2>1
  <2>3. /\ after \in Seq(M) /\ Len(before) \in Nat
        /\ \A n \in DOMAIN before : n \in DOMAIN after /\ after[n] = before[n] /\ n \in Nat
                                    /\ n <= Len(before)
    BY <2>2, JournalGrows
  <2>4. \A n \in DOMAIN noted : n \in Nat /\ Len(before) + n \in DOMAIN after
                                /\ after[Len(before) + n] = noted[n]
    BY <2>2, JournalGrows
  <2>5. \A n \in DOMAIN after : \/ n \in DOMAIN before
                                \/ \E m \in DOMAIN noted : n = Len(before) + m
    BY <2>2, JournalGrows
  <2> QED BY <2>1, <2>3, <2>4, <2>5
<1>8. \A k \in Keys :
        \/ table'[k] = E!FirstRule /\ \A n \in DOMAIN after : after[n].key # k
        \/ \E n \in DOMAIN after :
             /\ after[n].key = k /\ table'[k] = after[n].after
             /\ \A m \in DOMAIN after : after[m].key = k => m <= n
  <2> TAKE k \in Keys
  <2>1. ASSUME NEW n \in DOMAIN noted, noted[n].key = k
        PROVE  /\ after[Len(before) + n].key = k /\ table'[k] = after[Len(before) + n].after
               /\ \A m \in DOMAIN after : after[m].key = k => m <= Len(before) + n
    <3>1. after[Len(before) + n] = noted[n]
      BY <1>7, <2>1
    <3>2. k \in DOMAIN s.written /\ s.written[k] = noted[n].after
      BY <1>1, <1>2, <2>1 DEF SaveInv, Names
    <3>3. ASSUME NEW m \in DOMAIN after, after[m].key = k PROVE m <= Len(before) + n
      <4>1. CASE m \in DOMAIN before
        BY <1>7, <2>1, <4>1
      <4>2. ASSUME NEW l \in DOMAIN noted, m = Len(before) + l PROVE m <= Len(before) + n
        <5>1. noted[l].key = noted[n].key
          BY <1>7, <2>1, <3>3, <4>2
        <5>2. l = n
          BY <1>2, <2>1, <5>1 DEF Distinct
        <5> QED BY <1>7, <2>1, <4>2, <5>2
      <4> QED BY <1>7, <4>1, <4>2
    <3> QED BY <1>3, <2>1, <3>1, <3>2, <3>3
  <2>2. CASE \A n \in DOMAIN noted : noted[n].key # k
    <3>1. k \notin DOMAIN s.written
      BY <1>1, <1>2, <2>2 DEF SaveInv, Names
    <3>2. table'[k] = table[k]
      BY <1>3, <3>1
    <3>3. \A m \in DOMAIN after : after[m].key = k => m \in DOMAIN before
      BY <1>7, <2>2
    <3>4. \/ table[k] = E!FirstRule /\ \A n \in DOMAIN before : before[n].key # k
          \/ \E n \in DOMAIN before :
               /\ before[n].key = k /\ table[k] = before[n].after
               /\ \A m \in DOMAIN before : before[m].key = k => m <= n
      BY <1>1 DEF RulesInv, LastSays
    <3> QED BY <1>7, <3>2, <3>3, <3>4
  <2> QED BY <1>7, <2>1, <2>2
<1>9. \A k \in Keys : LastSays(k)'
  BY <1>4, <1>8 DEF LastSays
<1>10. DOMAIN tx' = Editors /\ \A x \in Editors : tx'[x] = IF x = e THEN E!NoSave ELSE tx[x]
  BY <1>3 DEF RulesInv
<1>11. \A x \in Editors : SaveInv(tx[x])'
  <2>1. ASSUME NEW x \in Editors PROVE SaveInv(tx'[x])
    BY <1>10, NoSaveIs, SaveOf
  <2>2. PICK all : all = tx'
    OBVIOUS
  <2>3. \A x \in Editors : SaveInv(all[x])
    BY <2>1, <2>2
  <2> QED BY <2>2, <2>3 DEF SaveInv, Distinct, Names
<1>12. E!OneWriter'
  <2>1. \A x \in Editors : DOMAIN tx'[x].written = IF x = e THEN {} ELSE DOMAIN tx[x].written
    BY <1>10, NoSaveIs
  <2>2. \A x, y \in Editors : x # y => DOMAIN tx'[x].written \cap DOMAIN tx'[y].written = {}
    BY <2>1 DEF RulesInv, E!OneWriter, E!Locks
  <2> QED BY <2>2 DEF E!OneWriter, E!Locks
<1>13. journal' \in Seq(Entries)
  BY <1>4, <1>7
<1> QED BY <1>3, <1>5, <1>6, <1>9, <1>10, <1>11, <1>12, <1>13 DEF RulesInv

LEMMA StepRules == ASSUME RulesInv, [E!RulesNext]_E!rules PROVE RulesInv'
<1>1. CASE UNCHANGED E!rules
  <2>1. UNCHANGED <<table, journal, tx, shown, drafts>>
    BY <1>1 DEF E!rules
  <2> QED BY <2>1 DEF RulesInv, SaveInv, Distinct, Names, E!OneWriter, E!Locks, LastSays
<1>2. CASE E!RulesNext
  <2>1. PICK e \in Editors :
          \/ \E k \in Keys, field \in E!Fields : E!Edit(e, k, field)
          \/ E!Reset(e) \/ E!Save(e) \/ E!Reopen(e) \/ E!SaveStep(e)
    BY <1>2 DEF E!RulesNext
  <2>2. CASE (\E k \in Keys, field \in E!Fields : E!Edit(e, k, field)) \/ E!Reset(e) \/ E!Reopen(e)
    BY <2>2, ScreensHold
  <2>3. CASE E!Save(e)
    BY <2>3, SaveHolds
  <2>4. CASE E!ReadBefore(e) \/ E!Compare(e) \/ E!Fails(e) \/ E!BreakDeadlock(e)
    BY <2>4, QuietSteps
  <2>5. CASE E!Write(e)
    BY <2>5, WriteHolds
  <2>6. CASE E!Note(e)
    BY <2>6, NoteHolds
  <2>7. CASE E!Commit(e) \/ E!CommitUnknown(e)
    BY <2>7, CommitHolds
  <2> QED BY <2>1, <2>2, <2>3, <2>4, <2>5, <2>6, <2>7 DEF E!SaveStep
<1> QED BY <1>1, <1>2
-------------------------------------------------------------------------------
(* A step of the two ends is a step of each of their parts, or leaves it.  *)
LEMMA EndsSteps ==
  ASSUME [EndsNext]_ends
  PROVE  /\ [Next]_vars /\ [S!Next]_S!vars /\ [B!Next]_B!vars /\ [L!Next]_L!vars
         /\ [W!WatchNext]_W!watch /\ [E!RulesNext]_E!rules /\ [F!FeedNext]_F!alarms
<1>1. UNCHANGED session => UNCHANGED S!vars
  BY DEF session, S!vars
<1>2. UNCHANGED buffer => UNCHANGED B!vars
  BY DEF buffer, B!vars, B!buffer
<1>3. UNCHANGED login => UNCHANGED L!vars
  BY DEF login, L!vars
<1>4. UNCHANGED watch => UNCHANGED W!watch
  BY DEF watch, W!watch
<1>5. UNCHANGED rules => UNCHANGED E!rules
  BY DEF rules, E!rules
<1>6. UNCHANGED alarms => UNCHANGED F!alarms
  BY DEF alarms, F!alarms
<1> QED BY <1>1, <1>2, <1>3, <1>4, <1>5, <1>6
        DEF EndsNext, ends, Live, Session, Buffer, Login, Watch, Rules, Feed

(* The cookie of the browser can be renewed, or there is a reason why not: *)
(* the person is disabled, the session closed, the window of the repeated  *)
(* token over, or its rotation broken off (auth.service.ts: everyone       *)
(* who shares a rotation is given the one pair).                           *)
THEOREM CookieAlwaysRenews == EndsSpec => []CookieRenews
<1>1. EndsInit => SessionInv
  BY InitSession DEF EndsInit
<1>2. SessionInv /\ [EndsNext]_ends => SessionInv'
  BY EndsSteps, StepSession
<1>3. SessionInv => CookieRenews
  BY SessionRenews DEF CookieRenews
<1> QED BY <1>1, <1>2, <1>3, PTL DEF EndsSpec

(* A tab at work is shown the form only because the person left or the     *)
(* token it presented was spent, and a session is closed for a repeated    *)
(* token only if the pair could not be repeated any more.  What the code   *)
(* breaks off between rotateSession and the pair is spent as well, so this *)
(* does not say that a fault of the database closes no session             *)
(* (StorageClosesNoSession does, and is not kept; auth.service.ts,         *)
(* http.ts).                                                               *)
THEOREM SessionsStand == EndsSpec => SessionStands
<1>1. EndsInit => SessionInv
  BY InitSession DEF EndsInit
<1>2. SessionInv /\ [EndsNext]_ends => SessionInv'
  BY EndsSteps, StepSession
<1>3. SessionInv /\ [EndsNext]_ends =>
        [\A t \in Tabs : tab[t] \in {"app", "stale"} /\ tab'[t] = "form" =>
           \A r \in S!Requests :
             req[r].tab = t /\ req[r].kind = "refresh" => S!Spent(req[r].token)]_S!vars
  BY EndsSteps, ThrownOutStep
<1>4. SessionInv /\ [EndsNext]_ends =>
        [\A s \in S!Sessions : S!Closes(s) => S!ClosedOnPurpose \/ row[s].prev \in excused]_S!vars
  BY EndsSteps, ReuseStep DEF S!Closes, S!ClosedOnPurpose
<1> QED BY <1>1, <1>2, <1>3, <1>4, PTL
        DEF EndsSpec, SessionStands, S!ThrownOutForCause, S!ReuseIsReal

(* Every message the poll put into the buffer is waiting, in its topic or  *)
(* counted as lost, and a topic sees the messages in the order of the poll *)
(* (bounded-publisher.ts: enqueue, drain, returnBatch).                    *)
THEOREM BufferConserves == EndsSpec => []Conserved
<1>1. EndsInit => BufferInv
  BY BufferStarts DEF EndsInit
<1>2. BufferInv /\ [EndsNext]_ends => BufferInv'
  BY EndsSteps, StepBuffer
<1>3. BufferInv => Conserved
  BY DEF BufferInv, Conserved
<1> QED BY <1>1, <1>2, <1>3, PTL DEF EndsSpec

(* Nobody is refused for more than the failures that time has not forgiven *)
(* in a bucket of his own, and the tokens are less than those only where a *)
(* look older than the row was written over it, which takes two attempts   *)
(* at once; who guesses alone pays for it in each of his buckets           *)
(* (rate-limit.ts: consumeRateLimit, auth.service.ts: login).              *)
THEOREM LoginLimitHolds == EndsSpec => []LoginIsLimited
<1>1. EndsInit => LimitInv
  BY LimitStarts DEF EndsInit
<1>2. LimitInv /\ [EndsNext]_ends => LimitInv'
  BY EndsSteps, StepLimit
<1>3. LimitInv => LoginIsLimited
  BY LimitGives DEF LoginIsLimited
<1> QED BY <1>1, <1>2, <1>3, PTL DEF EndsSpec

(* The buffer gives up nothing but its oldest messages and only while it   *)
(* is full of newer ones, a screen does not take back the end of a run it  *)
(* has shown, and who acknowledged an alarm first stays in its row         *)
(* (bounded-publisher.ts: enqueue; use-run-progress.ts; alarm-feed.ts:     *)
(* ackAlarm).                                                              *)
THEOREM NothingTakenBack == EndsSpec => NothingIsTakenBack
<1>1. EndsInit => BufferInv /\ WatchInv /\ FeedInv
  BY BufferStarts, WatchStarts, FeedStarts DEF EndsInit
<1>2. BufferInv /\ WatchInv /\ FeedInv /\ [EndsNext]_ends => (BufferInv /\ WatchInv /\ FeedInv)'
  BY EndsSteps, StepBuffer, StepWatch, StepFeed
<1>3. BufferInv /\ [EndsNext]_ends =>
        [\A n \in dropped' \ dropped :
           /\ Len(queue') = BufferCapacity
           /\ \A k \in DOMAIN queue' : queue'[k] > n]_B!vars
  BY EndsSteps, StepBuffer
<1>4. WatchInv /\ [EndsNext]_ends =>
        [W!Shown # 0 /\ W!Shown' = W!Shown /\ W!Finished(W!StatusOf(W!Shown))
           /\ launch # <<W!Answered, W!Shown>>
           => W!Finished(W!StatusOf(W!Shown)') \/ runs[W!Shown] = "gone"]_W!watch
  BY EndsSteps, EndStep
<1>5. FeedInv /\ [EndsNext]_ends =>
        [\A id \in Episodes :
           episode[id].acked # "nobody" => episode'[id].acked = episode[id].acked]_F!alarms
  BY EndsSteps, FirstAckStep
<1> QED BY <1>1, <1>2, <1>3, <1>4, <1>5, PTL
        DEF EndsSpec, NothingIsTakenBack, B!DropsOnlyOldest, W!EndStays, F!FirstAckStays

(* A rule is what its last entry in the journal says, whatever saves run   *)
(* beside each other, fail or lose their answer, and no two write one rule *)
(* at once; and the pages of the feed skip no episode that still fits,     *)
(* whatever patched, took back or re-read them (updateDeviceAlarmRules,    *)
(* listAlarms, use-alarm-feed.ts).  The feed of cleared episodes is left   *)
(* out: there the late event of a raising takes a row out for a while, as  *)
(* AlarmFeed says.                                                         *)
THEOREM AlarmsStayKept ==
  ASSUME "cleared" \notin Filters
  PROVE  EndsSpec => []AlarmsAreKept
<1>1. EndsInit => RulesInv /\ FeedInv
  BY RulesStart, FeedStarts DEF EndsInit
<1>2. RulesInv /\ FeedInv /\ [EndsNext]_ends => (RulesInv /\ FeedInv)'
  BY EndsSteps, StepRules, StepFeed
<1>3. RulesInv /\ FeedInv => AlarmsAreKept
  BY RulesGive, FeedSkipsNothing DEF AlarmsAreKept
<1> QED BY <1>1, <1>2, <1>3, PTL DEF EndsSpec
===============================================================================
