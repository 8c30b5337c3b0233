------------------------------ MODULE Listing -------------------------------
(***************************************************************************)
(* GET /v1/calls, page by page, while calls are promoted, dated anew and    *)
(* deleted.  There are two ways to a page.  Without a filter on flags,      *)
(* verdicts or latency, PostgresPointerStore.list_summaries asks the        *)
(* columns of active_calls for what follows the cursor's call; with one,    *)
(* active_calls (query.py) reads every active revision and paginate_calls   *)
(* looks for the cursor's call and revision in the list.                   *)
(*                                                                         *)
(* A pointer is moved first and its columns are written later               *)
(* (update_summary, worker/drain.py), so a new call has no date for a while.*)
(***************************************************************************)
EXTENDS Naturals, FiniteSets

CONSTANTS
    Calls,          \* calls, numbers: what orders them at the same time
    Clocks,         \* when a revision says that its call started, numbers > 0
    Limit,          \* calls on a page
    MaxRevision     \* bound of the model: revisions of each call

ASSUME ListingAssumption ==
    /\ Calls \subseteq Nat /\ IsFiniteSet(Calls) /\ Clocks \subseteq Nat \ {0}
    /\ Limit \in Nat \ {0} /\ MaxRevision \in [Calls -> Nat]

VARIABLES
    pointers,   \* active_calls: [revision, started], 0 for none and NULL
    clock,      \* the range clock of each call's active revision
    erased,     \* calls that were deleted: their tombstone keeps them out
    reader      \* a client: [path, cursor, seen, steady, done]

vars == <<pointers, clock, erased, reader>>

NoCursor == [call |-> 0, revision |-> 0]
Paths == {"summaries", "revisions"}
Idle == [path |-> "none", cursor |-> NoCursor, seen |-> {}, steady |-> {}, done |-> FALSE]

Init ==
    /\ pointers = [c \in Calls |-> [revision |-> 0, started |-> 0]]
    /\ clock = [c \in Calls |-> 0]
    /\ erased = {}
    /\ reader = Idle

-----------------------------------------------------------------------------
(* The pages.  The newest call first, the greater id first at the same time.*)

Dated(path, c) == IF path = "summaries" THEN pointers[c].started ELSE clock[c]
Listed(path) == {c \in Calls : pointers[c].revision # 0 /\ Dated(path, c) # 0}

Follows(path, c, d) ==
    \/ Dated(path, c) < Dated(path, d)
    \/ Dated(path, c) = Dated(path, d) /\ c < d

First(path, C) == {c \in C : Cardinality({d \in C : Follows(path, c, d)}) < Limit}
LastCall(path, C) == CHOOSE c \in C : \A d \in C \ {c} : Follows(path, c, d)

(* list_summaries: the cursor's call is looked up as it is now, whatever its*)
(* revision; a call that has gone starts the list again. *)
AfterCall(cursor) ==
    {c \in Listed("summaries") :
        \/ cursor = NoCursor \/ Dated("summaries", cursor.call) = 0
        \/ Follows("summaries", c, cursor.call)}

(* paginate_calls: a cursor that is not found starts the list again. *)
AfterRevision(cursor) ==
    {c \in Listed("revisions") :
        \/ cursor = NoCursor \/ cursor.call \notin Listed("revisions")
        \/ pointers[cursor.call].revision # cursor.revision
        \/ Follows("revisions", c, cursor.call)}

Rest(path, cursor) == IF path = "summaries" THEN AfterCall(cursor) ELSE AfterRevision(cursor)

(* Mutant: the cursor is the first call that did not fit. *)
CursorPast(path, rest) ==
    CHOOSE c \in rest \ First(path, rest) :
        \A d \in rest \ First(path, rest) : d = c \/ Follows(path, d, c)

CursorOf(path, rest) == LastCall(path, First(path, rest))

Begin(path) ==
    /\ reader.path = "none"
    /\ reader' = [Idle EXCEPT !.path = path, !.steady = Listed(path)]
    /\ UNCHANGED <<pointers, clock, erased>>

Page ==
    LET path == reader.path
        rest == Rest(path, reader.cursor)
        more == Cardinality(rest) > Limit
        last == CursorOf(path, rest)
    IN /\ path # "none" /\ ~reader.done
       /\ reader' = [reader EXCEPT
              !.seen = @ \cup First(path, rest),
              !.cursor = IF more THEN [call |-> last, revision |-> pointers[last].revision]
                         ELSE NoCursor,
              !.done = ~more]
       /\ UNCHANGED <<pointers, clock, erased>>

-----------------------------------------------------------------------------
(* What happens meanwhile.                                                 *)

(* A call that gets another place in the list is no longer owed to the      *)
(* reader; and when it is the call of a summaries cursor, nothing is. *)
Moved(r, path, c) ==
    IF r.path # path THEN r
    ELSE [r EXCEPT !.steady = IF path = "summaries" /\ r.cursor.call = c THEN r.seen
                              ELSE @ \ {c}]

(* compare_and_swap; the revision has a date of its own. *)
Promote(c) ==
    /\ c \notin erased /\ pointers[c].revision < MaxRevision[c]
    /\ UNCHANGED erased
    /\ \E t \in Clocks :
          /\ pointers' = [pointers EXCEPT ![c].revision = @ + 1]
          /\ clock' = [clock EXCEPT ![c] = t]
          /\ reader' = IF clock[c] = t THEN reader ELSE Moved(reader, "revisions", c)

(* update_summary. *)
Summarize(c) ==
    /\ pointers[c].revision # 0 /\ pointers[c].started # clock[c]
    /\ pointers' = [pointers EXCEPT ![c].started = clock[c]]
    /\ reader' = Moved(reader, "summaries", c)
    /\ UNCHANGED <<clock, erased>>

(* delete: a client is owed a deleted call on no path. *)
Delete(c) ==
    /\ pointers[c].revision # 0
    /\ pointers' = [pointers EXCEPT ![c] = [revision |-> 0, started |-> 0]]
    /\ clock' = [clock EXCEPT ![c] = 0]
    /\ erased' = erased \cup {c}
    /\ reader' = [reader EXCEPT !.steady = @ \ {c}]

Next ==
    \/ \E path \in Paths : Begin(path)
    \/ Page
    \/ \E c \in Calls : Promote(c) \/ Summarize(c) \/ Delete(c)

Spec == Init /\ [][Next]_vars

-----------------------------------------------------------------------------
(* What a reader gets.                                                     *)

(* A client that follows next_cursor to its end has seen every call that was*)
(* listed all the while in one place, whatever was promoted, deleted or     *)
(* inserted between two pages, and whether or not the call its cursor names *)
(* has another revision by then. *)
PagesCoverSteady == reader.done => reader.steady \subseteq reader.seen
=============================================================================
