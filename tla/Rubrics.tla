------------------------------- MODULE Rubrics -------------------------------
(***************************************************************************)
(* Which text of a rubric a verdict is of.  The endpoints of api.py edit    *)
(* rubrics in the table (store/postgres.py) and in the cache of their       *)
(* process, loaded when it started (runtime.py); the worker evaluates by    *)
(* its own cache (worker/drain.py), POST analyze by that of the API.        *)
(*                                                                         *)
(* A PUT reads its rubric before it awaits its body, so PUTs of one process *)
(* overlap.  A rubric's text stands for its kind, name, description,        *)
(* threshold and predicate.  One process serves the API.                    *)
(***************************************************************************)
EXTENDS Naturals, Sequences, FiniteSets, SequencesExt

CONSTANTS
    RubricIds,
    Texts,          \* what a judge is asked, or a predicate
    Predicates,
    Puts,           \* requests that may be under way at once
    MaxIssued,      \* bound of the model: texts issued when a PUT begins
    NoPut

VARIABLES
    table,          \* rubrics, by created_at: [id, version, text, enabled]
    cache,          \* state.rubrics of "api" and "worker", a dict: in insertion order
    put,            \* put[h]: the rubric a PUT has read, or NoPut
    issued,         \* history: [id, version, text] an endpoint answered
    overlapped,     \* history: rubrics edited or deleted while a PUT of theirs waits
    results         \* what the last step wrote: [id, version, text, judge, by]

rubricVars == <<table, cache, put, issued, overlapped, results>>

Named(r) == [id |-> r.id, version |-> r.version, text |-> r.text]
HasRubric(rubrics, id) == \E i \in DOMAIN rubrics : rubrics[i].id = id
PlaceOf(rubrics, id) == CHOOSE i \in DOMAIN rubrics : rubrics[i].id = id
RubricOf(rubrics, id) == rubrics[PlaceOf(rubrics, id)]
Without(rubrics, id) ==
    IF HasRubric(rubrics, id) THEN RemoveAt(rubrics, PlaceOf(rubrics, id)) ELSE rubrics

(* d[r.id] = r keeps the place of a key the dict has. *)
Assigned(rubrics, r) ==
    IF HasRubric(rubrics, r.id)
    THEN [i \in DOMAIN rubrics |-> IF rubrics[i].id = r.id THEN r ELSE rubrics[i]]
    ELSE Append(rubrics, r)

RubricsInit ==
    /\ table = <<>>
    /\ cache = [p \in {"api", "worker"} |-> <<>>]
    /\ put = [h \in Puts |-> NoPut]
    /\ issued = {} /\ overlapped = {} /\ results = {}

Waiting(id) == \E h \in Puts : put[h] # NoPut /\ put[h].id = id

CreateRubric(id, text) ==
    /\ \A n \in issued : n.id # id
    /\ LET r == [id |-> id, version |-> 1, text |-> text, enabled |-> TRUE] IN
          /\ table' = Append(table, r)
          /\ cache' = [cache EXCEPT !["api"] = Assigned(@, r)]
          /\ issued' = issued \cup {Named(r)}
    /\ results' = {}
    /\ UNCHANGED <<put, overlapped>>

(* PUT, up to the await of its body. *)
BeginPut(h, id) ==
    /\ put[h] = NoPut /\ HasRubric(cache["api"], id)
    /\ Cardinality(issued) < MaxIssued
    /\ put' = [put EXCEPT ![h] = RubricOf(cache["api"], id)]
    /\ results' = {}
    /\ UNCHANGED <<table, cache, issued, overlapped>>

(* ... and from there: new_version counts from what the PUT read; the UPDATE *)
(* finds no row of a rubric deleted meanwhile, the cache takes it back. *)
EndPut(h, text, enabled) ==
    /\ put[h] # NoPut
    /\ LET r == [id |-> put[h].id, version |-> put[h].version + 1, text |-> text,
                 enabled |-> enabled]
           rest == [put EXCEPT ![h] = NoPut] IN
          /\ table' = IF HasRubric(table, r.id) THEN Assigned(table, r) ELSE table
          /\ cache' = [cache EXCEPT !["api"] = Assigned(@, r)]
          /\ issued' = issued \cup {Named(r)}
          /\ put' = rest
          /\ overlapped' = IF \E g \in Puts : rest[g] # NoPut /\ rest[g].id = r.id
                           THEN overlapped \cup {r.id} ELSE overlapped
    /\ results' = {}

DeleteRubric(id) ==
    /\ HasRubric(cache["api"], id)
    /\ table' = Without(table, id)
    /\ cache' = [cache EXCEPT !["api"] = Without(@, id)]
    /\ overlapped' = IF Waiting(id) THEN overlapped \cup {id} ELSE overlapped
    /\ results' = {}
    /\ UNCHANGED <<put, issued>>

(* _load_rubrics. *)
StartProcess(p) ==
    /\ cache' = [cache EXCEPT ![p] = table]
    /\ put' = IF p = "api" THEN [h \in Puts |-> NoPut] ELSE put
    /\ results' = {}
    /\ UNCHANGED <<table, issued, overlapped>>

-----------------------------------------------------------------------------
(* The places of those to be judged, in the order of the cache. *)
Enabled(p) == {i \in DOMAIN cache[p] : cache[p][i].enabled}
Result(r, text, by) ==
    [id |-> r.id, version |-> r.version, text |-> text,
     judge |-> r.text \notin Predicates, by |-> by]

(* _run_manual_analysis: each rubric by its own text. *)
Analyze ==
    /\ results' = {Result(cache["api"][i], cache["api"][i].text, "api") : i \in Enabled("api")}
    /\ UNCHANGED <<table, cache, put, issued, overlapped>>

(* Mutant: the first rubric, whatever its version. *)
JudgedFirst(rubrics, places, r) ==
    IF r.text \in Predicates THEN r ELSE rubrics[Min(places)]

(* _run_queued_tier2: predicates by themselves, but the rubric of a judge's   *)
(* question is the first, of either kind, that has the version's number. *)
JudgedAs(rubrics, places, r) ==
    IF r.text \in Predicates THEN r
    ELSE rubrics[Min({i \in places : rubrics[i].version = r.version})]

DrainRubrics ==
    /\ LET rubrics == cache["worker"]
           places == Enabled("worker") IN
       results' = {Result(rubrics[i], JudgedAs(rubrics, places, rubrics[i]).text, "worker") :
                      i \in places}
    /\ UNCHANGED <<table, cache, put, issued, overlapped>>

RubricsNext ==
    \/ \E id \in RubricIds :
          \/ \E text \in Texts : CreateRubric(id, text)
          \/ \E h \in Puts : BeginPut(h, id)
          \/ DeleteRubric(id)
    \/ \E h \in Puts, text \in Texts, enabled \in BOOLEAN :
          EndPut(h, text, enabled)
    \/ \E p \in {"api", "worker"} : StartProcess(p)
    \/ Analyze \/ DrainRubrics

RubricsSpec == RubricsInit /\ [][RubricsNext]_rubricVars

-----------------------------------------------------------------------------
(* A version of a rubric nobody edited across a waiting PUT is of one text,  *)
(* the API's cache and the table agree on it, and a deleted one is in        *)
(* neither; results the API writes, and the worker's of predicates, are of a *)
(* text the rubric had under that version; a question the worker puts to a   *)
(* judge is at least of a text some rubric had under that number. *)
VersionsKept ==
    /\ \A a, b \in issued :
          a.id = b.id /\ a.version = b.version /\ a.text # b.text => a.id \in overlapped
    /\ \A id \in RubricIds \ overlapped :
          /\ HasRubric(cache["api"], id) <=> HasRubric(table, id)
          /\ HasRubric(table, id) => RubricOf(table, id) = RubricOf(cache["api"], id)
    /\ \A r \in results :
          \E n \in issued :
              /\ n.version = r.version /\ n.text = r.text
              /\ r.by = "api" \/ ~r.judge => n.id = r.id

(* "PUT /v1/rubrics/{id} creates a new version.  Historical results keep the *)
(* version they were judged under" (docs/api.md): a result that names a      *)
(* version of a rubric was judged by that rubric's text.  The worker's is    *)
(* judged by the first rubric whose version has the same number. *)
JudgedByOwnText ==
    \A r \in results : [id |-> r.id, version |-> r.version, text |-> r.text] \in issued
=============================================================================
