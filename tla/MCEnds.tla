------------------------------ MODULE MCEnds ---------------------------------
(***************************************************************************)
(* The two ends of the way of a measurement, on one instance: the buffer   *)
(* of the collector before the broker, and the session and the live        *)
(* channel of a browser, the buckets in front of the login, a screen that  *)
(* watches a run, the editing of rules and the feed of alarms.  They share *)
(* no state, so a behaviour is about one of them, chosen at the start.     *)
(***************************************************************************)
EXTENDS LiveEvents

CONSTANTS t1, t2, Tabs, MaxTokens, MaxSessions, MaxRequests, MaxSessionFaults, NoTab,
  BufferCapacity, BatchSize, Topics, MaxMessages, MaxFailures,
  MaxRuns, MaxTroubles, MaxUses,
  Emails, Address, EmailCapacity, AddressCapacity, RefillMs, MaxAttempts, MaxTime, mail, ip,
  Editors, Keys, MaxActs, MaxSlips, anna, boris,
  Episodes, Filters, Moments, Shared, PageSize, MaxAcks, MaxReads, MaxLosses

(* What the environment schemas and the bounds of an instance give.  The   *)
(* keys of the two kinds of bucket begin differently, so that no e-mail is *)
(* an address.                                                             *)
ASSUME EndsAssumption ==
  /\ {MaxTokens, MaxSessions, MaxRequests, MaxSessionFaults, MaxMessages, MaxFailures, MaxRuns,
      MaxTroubles, MaxUses, MaxAttempts, MaxTime, MaxActs, MaxSlips} \subseteq Nat
  /\ {BufferCapacity, BatchSize, Topics, EmailCapacity, AddressCapacity, RefillMs, PageSize}
       \subseteq Nat \ {0}
  /\ NoTab \notin Tabs /\ Address \notin Emails
  /\ IsFiniteSet(Keys) /\ IsFiniteSet(Episodes)
  /\ Episodes \subseteq Nat /\ Moments \subseteq Nat \ {0}

VARIABLES part, row, made, of, disabled, recent, rotating, jar, tab, req, excused, broken, calls,
  enqueued, queue, inFlight, dropped, acked, pump, closed, topics, failures,
  bucket, now, attempt, fullAt, torn, alone,
  screen, runs, list, asking, polled, polling, refused, chosen, launch, wants, failure, expired,
  troubles, used,
  table, journal, tx, shown, drafts, acts, slips,
  episode, frames, filter, feed, fetch, marks, acks, reads, losses

S == INSTANCE Sessions WITH faults <- calls, MaxFaults <- MaxSessionFaults
B == INSTANCE Publisher WITH log <- topics, Capacity <- BufferCapacity
L == INSTANCE RateLimit
W == INSTANCE RunWatch
E == INSTANCE RuleEditing
F == INSTANCE AlarmFeed

session == <<row, made, of, disabled, recent, rotating, jar, tab, req, excused, broken, calls>>
buffer == <<enqueued, queue, inFlight, dropped, acked, pump, closed, topics, failures>>
login == <<bucket, now, attempt, fullAt, torn, alone>>
watch == <<screen, runs, list, asking, polled, polling, refused, chosen, launch, wants, failure,
           expired, troubles, used>>
rules == <<table, journal, tx, shown, drafts, acts, slips>>
alarms == <<episode, frames, filter, feed, fetch, marks, acks, reads, losses>>
ends == <<part, vars, session, buffer, login, watch, rules, alarms>>

EndsInit ==
  /\ part \in {"session", "live", "buffer", "login", "watch", "rules", "alarms"}
  /\ Init /\ S!Init /\ B!Init /\ L!Init /\ W!WatchInit /\ E!RulesInit /\ F!FeedInit
  /\ part # "watch" => screen = "replay"
  /\ part # "rules" => \A e \in Editors : drafts[e] = E!NoDrafts

Live(A) == part = "live" /\ A /\ UNCHANGED <<part, session, buffer, login, watch, rules, alarms>>
Session(A) == part = "session" /\ A /\ UNCHANGED <<part, vars, buffer, login, watch, rules, alarms>>
Buffer(A) == part = "buffer" /\ A /\ UNCHANGED <<part, vars, session, login, watch, rules, alarms>>
Login(A) == part = "login" /\ A /\ UNCHANGED <<part, vars, session, buffer, watch, rules, alarms>>
Watch(A) == part = "watch" /\ A /\ UNCHANGED <<part, vars, session, buffer, login, rules, alarms>>
Rules(A) == part = "rules" /\ A /\ UNCHANGED <<part, vars, session, buffer, login, watch, alarms>>
Feed(A) == part = "alarms" /\ A /\ UNCHANGED <<part, vars, session, buffer, login, watch, rules>>

EndsNext == Live(Next) \/ Session(S!Next) \/ Buffer(B!Next) \/ Login(L!Next)
            \/ Watch(W!WatchNext) \/ Rules(E!RulesNext) \/ Feed(F!FeedNext)

(* The fairness of the modules.  The requests of the tabs, the launches    *)
(* and the moves of runs are bounded, so that it is enough that one of     *)
(* them goes on.                                                           *)
EndsFair ==
  /\ WF_ends(Live(Connect)) /\ WF_ends(Live(Handle)) /\ WF_ends(Live(Silence))
  /\ WF_ends(Session(\E r \in S!Requests : S!Serve(r) \/ S!Receive(r)))
  /\ WF_ends(Buffer(B!Wake)) /\ WF_ends(Buffer(B!PumpEnds)) /\ SF_ends(Buffer(B!SendOk))
  /\ WF_ends(Watch(W!ReadsLists)) /\ WF_ends(Watch(W!ReadsRuns)) /\ WF_ends(Watch(W!RunsEnd))
  /\ \A e \in Editors : WF_ends(Rules(E!SaveStep(e)))

EndsSpec == EndsInit /\ [][EndsNext]_ends /\ EndsFair

(* Every message of the poll is waiting, in the topic or counted as lost,  *)
(* and a topic sees messages in the order they were put in.                *)
Conserved == B!Conserved

(* The tokens of a bucket are the failures time has not forgiven, but for  *)
(* what attempts at once have overwritten.                                 *)
LoginIsLimited == L!LoginIsLimited

(* The buffer gives up nothing but its oldest messages, a screen does not  *)
(* take back the end of a run it has shown, and who acknowledged an alarm  *)
(* first stays.                                                            *)
NothingIsTakenBack == B!DropsOnlyOldest /\ W!EndStays /\ F!FirstAckStays

(* The cookie of the browser can be renewed, or there is a reason why not. *)
CookieRenews == S!CookieRenews

(* A rule is what its last entry in the journal says, no two saves write   *)
(* one rule at once, and the pages of the feed skip no episode.            *)
AlarmsAreKept == E!RulesAreKept /\ F!NothingSkipped

(* Every change of a field of a rule has its trace in the journal.         *)
EveryChangeHasItsTrace == E!EveryChangeHasItsTrace

(* Nobody is thrown out, and no session closed for a repeated token,       *)
(* without cause; a rotation that the database broke off is one.           *)
SessionStands == S!ThrownOutForCause /\ S!ReuseIsReal

(* No session is closed because its storage failed. *)
StorageClosesNoSession == S!StorageClosesNoSession

(* A stream is open, with one exception the code has: if the reopening by  *)
(* the watchdog itself is refused, nothing arms the timer any more, and    *)
(* only a new token brings the stream back.                                *)
StreamIsBack == source = "open" \/ (source = "dead" /\ ~armed)

(* What is under way at an end comes to its own: the calls of the tabs are *)
(* answered, a broken stream is back, the messages leave the buffer, saves *)
(* of rules end, and a screen does not wait for ever for a run that has    *)
(* ended.                                                                  *)
EndsWell ==
  /\ []<>CASE part = "session" -> S!NoCall [] part = "live" -> StreamIsBack
            [] part = "buffer" -> B!NothingWaits [] part = "rules" -> E!NoSaveOpen
            [] part \in {"login", "watch", "alarms"} -> TRUE
  /\ <>[](part = "watch" => W!Clear)
==============================================================================
