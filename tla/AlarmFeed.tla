------------------------------- MODULE AlarmFeed -------------------------------
(***************************************************************************)
(* The feed of alarms: pages read from the table of episodes by a cursor   *)
(* while episodes are raised and cleared, and the one feed of a screen,    *)
(* which live events, acknowledgements put in before their answer, and     *)
(* re-reads all patch.                                                     *)
(*                                                                         *)
(* Of the filters the state of an episode is kept: severity and device     *)
(* never change.  A cursor is the position of the last row of a page.  A   *)
(* feed of cleared episodes is not sound in the sense of NothingSkipped: a *)
(* late event of the raising takes an episode out of it that it has read   *)
(* as cleared already, until the event of the clearing comes.              *)
(***************************************************************************)
EXTENDS Integers, Sequences, FiniteSets

CONSTANTS
  Episodes,       \* ids, numbered as the database compares them
  Filters,        \* "any", "active" or "cleared"
  Moments,        \* the times an episode may have occurred at, numbered
  Shared,         \* those other people may acknowledge
  PageSize,
  MaxAcks,        \* bound: acknowledgements of this screen
  MaxReads,       \* bound: re-reads and further pages asked for
  MaxLosses       \* bound: refused or unanswered requests

VARIABLES
  episode,   \* core.alarm_events
  frames,    \* live events on their way to the screen
  filter,    \* the state the feed is filtered by
  feed,      \* its pages, and what stood in the table when it was read (for the properties)
  fetch,     \* the read under way
  marks,     \* acknowledgements under way
  acks, reads, losses

alarms == <<episode, frames, filter, feed, fetch, marks, acks, reads, losses>>

NotRaised == [at |-> 0, active |-> FALSE, acked |-> "nobody"]
Raised == {id \in Episodes : episode[id].at > 0}
NoCursor == <<>>
NoFeed == [pages |-> <<>>, stood |-> {}]
NoFetch == [kind |-> "none", old |-> NoFeed, got |-> NoFeed, left |-> 0, cursor |-> NoCursor]
NoCall == [at |-> "none", snapshot |-> NoFeed, row |-> NotRaised]

FeedInit ==
  /\ episode = [id \in Episodes |-> NotRaised] /\ frames = <<>>
  /\ filter \in Filters
  /\ feed = NoFeed /\ fetch = NoFetch
  /\ marks = [id \in Episodes |-> NoCall]
  /\ acks = 0 /\ reads = 0 /\ losses = 0

Fits(active) == (filter = "active" => active) /\ (filter = "cleared" => ~active)

-------------------------------------------------------------------------------
(* Episodes, by the processor and by other people. *)

screen == <<filter, feed, fetch, marks>>

(* An episode of an older moment may be raised later: frames come late. *)
Raise(id, at) ==
  /\ id \notin Raised
  /\ episode' = [episode EXCEPT ![id] = [at |-> at, active |-> TRUE, acked |-> "nobody"]]
  /\ frames' = Append(frames, [id |-> id, active |-> TRUE])
  /\ UNCHANGED <<screen, acks, reads, losses>>

Clear(id) ==
  /\ episode[id].active
  /\ episode' = [episode EXCEPT ![id].active = FALSE]
  /\ frames' = Append(frames, [id |-> id, active |-> FALSE])
  /\ UNCHANGED <<screen, acks, reads, losses>>

(* The first who acknowledges stays in the row. *)
AckedBy(row, person) == IF row.acked = "nobody" THEN [row EXCEPT !.acked = person] ELSE row

AckByOther(id) ==
  /\ id \in Raised \cap Shared
  /\ episode' = [episode EXCEPT ![id] = AckedBy(@, "other")]
  /\ UNCHANGED <<frames, screen, acks, reads, losses>>

-------------------------------------------------------------------------------
(* A page: the rows below the cursor from fresh to old, and a cursor when  *)
(* one more row than asked for was found.                                  *)

Position(id) == <<episode[id].at, id>>
Before(left, right) == left[1] > right[1] \/ (left[1] = right[1] /\ left[2] > right[2])
Row(id) == [id |-> id, active |-> episode[id].active, acked |-> episode[id].acked]

Matching(cursor) ==
  {id \in Raised : Fits(episode[id].active) /\ (cursor # NoCursor => Before(cursor, Position(id)))}
Place(id, ids) == Cardinality({other \in ids : Before(Position(other), Position(id))}) + 1

PageOf(ids) ==
  LET found == IF Cardinality(ids) > PageSize THEN PageSize ELSE Cardinality(ids)
      order == [n \in 1..found |-> CHOOSE id \in ids : Place(id, ids) = n]
  IN  [items |-> [n \in 1..found |-> Row(order[n])],
       next  |-> IF Cardinality(ids) > PageSize THEN Position(order[found]) ELSE NoCursor]

(* Mutant: the cursor is a number of rows, and those rows are skipped. *)
ListAlarmsByOffset(cursor, got) ==
  PageOf({id \in Matching(NoCursor) : Place(id, Matching(NoCursor)) > PageSize * Len(got)})

ListAlarms(cursor, got) == PageOf(Matching(cursor))

-------------------------------------------------------------------------------
(* The reads of the screen.  A read that is begun takes the place of the   *)
(* one under way.                                                          *)

LastPage(f) == f.pages[Len(f.pages)]

(* The first read, or all pages anew one after the other. *)
Refetch ==
  [kind |-> "refetch", old |-> feed, got |-> NoFeed, cursor |-> NoCursor,
   left |-> IF feed.pages = <<>> THEN 1 ELSE Len(feed.pages)]

Reload ==
  /\ reads < MaxReads /\ reads' = reads + 1
  /\ fetch' = Refetch
  /\ UNCHANGED <<episode, frames, filter, feed, marks, acks, losses>>

(* The next page is put behind the pages as they are now. *)
LoadMore ==
  /\ reads < MaxReads /\ reads' = reads + 1
  /\ fetch.kind # "more" /\ feed.pages # <<>>
  /\ LastPage(feed).next # NoCursor
  /\ fetch' = [kind |-> "more", old |-> feed, got |-> feed, left |-> 1,
               cursor |-> LastPage(feed).next]
  /\ UNCHANGED <<episode, frames, filter, feed, marks, acks, losses>>

ReadPage ==
  /\ fetch.kind # "none" /\ fetch.left > 0
  /\ LET page == ListAlarms(fetch.cursor, fetch.got.pages)
         ended == page.next = NoCursor
     IN  fetch' = [fetch EXCEPT
           !.got.pages = Append(@, page),
           !.got.stood = IF fetch.cursor = NoCursor THEN Matching(NoCursor) ELSE @,
           !.cursor = page.next, !.left = IF ended THEN 0 ELSE @ - 1]
  /\ UNCHANGED <<episode, frames, filter, feed, marks, acks, reads, losses>>

Deliver ==
  /\ fetch.kind # "none" /\ fetch.left = 0
  /\ feed' = fetch.got /\ fetch' = NoFetch
  /\ UNCHANGED <<episode, frames, filter, marks, acks, reads, losses>>

FetchFails ==
  /\ fetch.kind # "none" /\ losses < MaxLosses /\ losses' = losses + 1
  /\ fetch' = NoFetch
  /\ UNCHANGED <<episode, frames, filter, feed, marks, acks, reads>>

-------------------------------------------------------------------------------
(* Live events. *)

Known(id) == \E n \in DOMAIN feed.pages : \E k \in DOMAIN feed.pages[n].items :
               feed.pages[n].items[k].id = id

ItemsOf(f, Patched(_)) ==
  [f EXCEPT !.pages = [n \in DOMAIN f.pages |->
     [f.pages[n] EXCEPT !.items =
        [k \in DOMAIN f.pages[n].items |-> Patched(f.pages[n].items[k])]]]]

(* The rows of the other episodes, in their order. *)
Without(items, id) ==
  LET kept == {k \in DOMAIN items : items[k].id # id}
  IN  [n \in 1..Cardinality(kept) |->
        items[CHOOSE k \in kept : Cardinality({j \in kept : j < k}) + 1 = n]]

(* A known episode is patched, or leaves the feed when it fits no more; an *)
(* unknown one that fits is put at the head.                               *)
PatchAlarm ==
  /\ frames # <<>> /\ frames' = Tail(frames)
  /\ LET event == Head(frames)
         patched == ItemsOf(feed, LAMBDA row : IF row.id = event.id
                                               THEN [row EXCEPT !.active = event.active] ELSE row)
         without == [feed EXCEPT !.pages = [n \in DOMAIN feed.pages |->
                      [feed.pages[n] EXCEPT !.items = Without(feed.pages[n].items, event.id)]]]
         fresh == [id |-> event.id, active |-> event.active, acked |-> "nobody"]
     IN  feed' = IF feed.pages = <<>> THEN feed
                 ELSE IF ~Fits(event.active) THEN without
                 ELSE IF Known(event.id) THEN patched
                 ELSE [feed EXCEPT !.pages[1].items = <<fresh>> \o @]
  /\ UNCHANGED <<episode, filter, fetch, marks, acks, reads, losses>>

(* The ring of the gateway does not cover what was missed: the feed is     *)
(* read anew.                                                              *)
Resync ==
  /\ frames # <<>> /\ frames' = <<>> /\ losses < MaxLosses /\ losses' = losses + 1
  /\ fetch' = IF feed.pages = <<>> /\ fetch.kind # "none" THEN fetch ELSE Refetch
  /\ UNCHANGED <<episode, filter, feed, marks, acks, reads>>

-------------------------------------------------------------------------------
(* Acknowledgement.  A read under way is cancelled, which also takes back  *)
(* what was patched since it began; the mark is put in at once, and a      *)
(* refusal puts the whole feed back as it was before.                      *)

Marked(f, id, person) ==
  ItemsOf(f, LAMBDA row : IF row.id = id THEN [row EXCEPT !.acked = person] ELSE row)

Ack(id) ==
  /\ acks < MaxAcks /\ acks' = acks + 1
  /\ marks[id].at = "none"
  /\ \E n \in DOMAIN feed.pages : \E k \in DOMAIN feed.pages[n].items :
       LET row == feed.pages[n].items[k] IN row.id = id /\ row.acked = "nobody"
  /\ LET base == IF fetch.kind = "none" THEN feed ELSE fetch.old
     IN  /\ marks' = [marks EXCEPT ![id] = [NoCall EXCEPT !.at = "sent", !.snapshot = base]]
         /\ feed' = Marked(base, id, "me")
  /\ fetch' = NoFetch
  /\ UNCHANGED <<episode, frames, filter, reads, losses>>

AckServed(id) ==
  /\ marks[id].at = "sent"
  /\ LET row == AckedBy(episode[id], "me")
     IN  /\ episode' = [episode EXCEPT ![id] = row]
         /\ marks' = [marks EXCEPT ![id].at = "answer", ![id].row = row]
  /\ UNCHANGED <<frames, filter, feed, fetch, acks, reads, losses>>

AckSucceeds(id) ==
  /\ marks[id].at = "answer"
  /\ feed' = ItemsOf(feed, LAMBDA row :
       IF row.id = id THEN [id |-> id, active |-> marks[id].row.active, acked |-> marks[id].row.acked]
       ELSE row)
  /\ marks' = [marks EXCEPT ![id] = NoCall]
  /\ UNCHANGED <<episode, frames, filter, fetch, acks, reads, losses>>

(* Refused, or the answer is lost. *)
AckFails(id) ==
  /\ marks[id].at # "none" /\ losses < MaxLosses /\ losses' = losses + 1
  /\ feed' = IF marks[id].snapshot.pages = <<>> THEN feed ELSE marks[id].snapshot
  /\ marks' = [marks EXCEPT ![id] = NoCall]
  /\ UNCHANGED <<episode, frames, filter, fetch, acks, reads>>

FeedNext ==
  \/ \E id \in Episodes :
       \/ \E at \in Moments : Raise(id, at)
       \/ Clear(id) \/ AckByOther(id)
       \/ Ack(id) \/ AckServed(id) \/ AckSucceeds(id) \/ AckFails(id)
  \/ Reload \/ LoadMore \/ ReadPage \/ Deliver \/ FetchFails \/ PatchAlarm \/ Resync

-------------------------------------------------------------------------------
(* Properties. *)

(* No episode is skipped by the pages: one that stood in the table when    *)
(* the feed was read, and still fits, is on the screen as soon as the      *)
(* pages reach it, whatever was raised and cleared between the pages and   *)
(* whatever patched, took back or re-read them (useAlarmFeed, listAlarms). *)
NothingSkipped ==
  \A id \in feed.stood :
    Fits(episode[id].active) =>
      \/ Known(id)
      \/ LastPage(feed).next # NoCursor /\ Before(LastPage(feed).next, Position(id))

(* Who acknowledged first stays (ackAlarm). *)
FirstAckStays ==
  [][\A id \in Episodes : episode[id].acked # "nobody" => episode'[id].acked = episode[id].acked]_alarms
===============================================================================
