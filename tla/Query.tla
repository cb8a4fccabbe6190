------------------------------- MODULE Query -------------------------------
(***************************************************************************)
(* One question (nexus-agent/src/query.rs): the working representation is  *)
(* read from the store bucket by bucket (representation.rs), flattened and *)
(* cut to the budget (ranking.rs), written into a context of limited       *)
(* length (nexus-lephase/src/integration.rs) and given to the language     *)
(* model, whose answer may be refined; any failure falls back to a plain   *)
(* text search.                                                            *)
(* Introspection goes the same way with a larger representation and asks   *)
(* no model.  Other tasks archive memories between two reads.              *)
(*                                                                         *)
(* A later memory has a greater number, so that newest first is greatest   *)
(* first; limits and cuts keep the members that fewest others come before. *)
(***************************************************************************)
EXTENDS Naturals, FiniteSets

CONSTANTS
  Table,         \* Table[m]: the row of memory m, see Row
  Aliases,       \* how many other namespaces belong to the agent
  Questions,     \* requests, see Request
  MaxNear,       \* the greatest similarity; below 2 is under the threshold
  Score(_, _),   \* the blended score of a memory in a bucket
  Qualities,     \* what answer_quality tells apart
  LastPhase,     \* the last phase that the context has a section for, 6 in the code
  MaxSize,       \* the greatest length of a memory's line
  MaxChars,      \* the length of a context with sections, 12,000 in the code
  MaxChanges     \* bound on the memories archived meanwhile

Rows == DOMAIN Table
Buckets  == {"digests", "recent", "semantic", "derived", "contradictions"}
Level    == {"raw", "explicit", "derived", "contradiction", "short", "long"}

Row == [level : Level, sure : BOOLEAN, mine : BOOLEAN, home : 0 .. Aliases,
        hit : BOOLEAN, near : 0 .. MaxNear, reinforced : Nat,
        phase : 1 .. LastPhase, size : 1 .. MaxSize]
Request == [items : Nat, mine : BOOLEAN, raw : BOOLEAN, buckets : SUBSET Buckets,
            explain : BOOLEAN]

VARIABLES
  active,        \* the memories that are not archived
  request,       \* the request
  pc,
  rep,           \* rep[b]: the memories of bucket b
  included,      \* what is ranked first: what the lineages or the explanation list
  phase,         \* the section of the context that is written next
  shown,         \* the memories that the context given to the model shows
  answer,        \* the quality of the answer so far, 0 when there is none
  changes

vars == <<active, request, pc, rep, included, phase, shown, answer, changes>>

\* A step that fills a bucket has its name.
Gathering == Buckets

TypeOK ==
  /\ active \subseteq Rows
  /\ request \in Questions
  /\ pc \in Gathering \cup {"rank", "context", "answer", "refine", "legacy",
                                "answered", "explained", "failed"}
  /\ rep \in [Buckets -> SUBSET Rows]
  /\ included \subseteq Rows /\ shown \subseteq Rows
  /\ phase \in 1 .. LastPhase + 1
  /\ answer \in Qualities \cup {0}
  /\ changes \in 0 .. MaxChanges

Init ==
  /\ active = Rows
  /\ request \in Questions
  /\ pc = "digests"
  /\ rep = [b \in Buckets |-> {}]
  /\ included = {} /\ phase = 1 /\ shown = {} /\ answer = 0 /\ changes = 0

\* Only while statements are still to come: afterwards nobody looks.
Archive(m) ==
  /\ pc \in Gathering \cup {"legacy"}
  /\ changes < MaxChanges
  /\ active' = active \ {m} /\ changes' = changes + 1
  /\ UNCHANGED <<request, pc, rep, included, phase, shown, answer>>

-----------------------------------------------------------------------------
(* Budgets *)

Least(a, b)    == IF a < b THEN a ELSE b
Greatest(a, b) == IF a < b THEN b ELSE a
Minus(a, b)    == a - Least(a, b)

\* What the buckets get of a budget of n > 0; a recent memory gets what is left.
Shares(n) ==
  LET dig   == Least(n, 2)
      con   == Least(n \div 10, 2)
      fixed == n - dig - con
      der   == Least(fixed, Greatest(n \div 4, IF n >= 16 THEN 4 ELSE 1))
      sem   == Least(fixed - der, IF n >= 16 THEN Greatest((3 * n) \div 10, 4)
                                             ELSE Greatest(n \div 3, 1))
  IN  [digests |-> dig, contradictions |-> con, derived |-> der, semantic |-> sem,
       recent |-> n - dig - con - der - sem]

\* (bug) the place for a recent memory is taken from no other bucket.
BugBucketLimits(items) ==
  LET L == Shares(Greatest(items, 1))
  IN  [L EXCEPT !.recent = Greatest(@, 1)]

\* When nothing is left for recent memories, another bucket gives a place up.
BucketLimits(items) ==
  LET L     == Shares(Greatest(items, 1))
      giver == CASE L.semantic > 0 -> "semantic"
                 [] L.semantic = 0 /\ L.derived > 0 -> "derived"
                 [] L.semantic = 0 /\ L.derived = 0 /\ L.digests > 0 -> "digests"
                 [] OTHER -> "contradictions"
  IN  IF L.recent > 0 THEN L ELSE [L EXCEPT ![giver] = Minus(@, 1), !.recent = 1]

\* Introspection asks for more than it will include.
Items(r)  == IF r.explain THEN Greatest(3 * r.items, r.items + 8) ELSE r.items
Limit(b)  == BucketLimits(Items(request))[b]
Overfetch(limit) == Greatest(Items(request), 3 * Greatest(limit, 1))

\* The first n of S, where Before(k, m) says that k is listed before m.
First(S, n, Before(_, _)) ==
  {m \in S : Cardinality({k \in S : Before(k, m)}) < n}
Newer(k, m)  == k > m
Newest(S, n) == First(S, n, Newer)

-----------------------------------------------------------------------------
(* The representation *)

\* The rows that the statements of a bucket range over.
Listed ==
  {m \in active : /\ Table[m].home = 0
                  /\ request.mine => Table[m].mine
                  /\ Table[m].level = "raw" => request.raw}

\* A bucket that is not asked for, or has no places, is left empty.
Fill(b, S) ==
  rep' = [rep EXCEPT ![b] = IF b \in request.buckets /\ Limit(b) > 0 THEN S ELSE {}]

Goto(b, next) ==
  /\ pc = b
  /\ pc' = next
  /\ UNCHANGED <<active, request, included, phase, shown, answer, changes>>

\* latest_digest_for_session and _for_namespace ask neither for active rows nor
\* for a perspective.
LatestDigest(home, level, session) ==
  Newest({m \in Rows : /\ Table[m].home = home /\ Table[m].level = level
                       /\ session => Table[m].mine}, 1)

\* The session's own, then one of each alias that can be reached, up to the limit.
GatherDigests ==
  \E reached \in SUBSET (1 .. Aliases) :
    LET short  == LatestDigest(0, "short", TRUE)
        long   == LatestDigest(0, "long", TRUE)
        own    == IF ~request.mine THEN {}
                  ELSE short \cup (IF Cardinality(short) < Limit("digests") THEN long ELSE {})
        having == {a \in reached : LatestDigest(a, "short", request.mine) # {}}
        taken  == First(having, Minus(Limit("digests"), Cardinality(own)),
                        LAMBDA k, a : k < a)
    IN  /\ Fill("digests",
                own \cup UNION {LatestDigest(a, "short", request.mine) : a \in taken})
        /\ Goto("digests", "recent")

IncludeRecent(m) ==
  \/ Table[m].level = "raw" /\ request.raw
  \/ Table[m].level = "explicit" /\ Table[m].sure

GatherRecent ==
  /\ rep' = [rep EXCEPT !["recent"] =
       IF "recent" \in request.buckets
       THEN Newest({m \in Newest(Listed, Overfetch(Limit("recent"))) : IncludeRecent(m)},
                   Limit("recent"))
       ELSE {}]
  /\ Goto("recent", "semantic")

IncludeSemantic(m) ==
  \/ Table[m].level = "raw" /\ request.raw
  \/ Table[m].level \in {"explicit", "derived", "contradiction"} /\ Table[m].sure

\* By vectors when there is an embedder, topped up by the text of the question,
\* wherever the hits are seen from.
GatherSemantic ==
  \E embedder \in BOOLEAN :
    LET limit    == Limit("semantic")
        vectors  == {m \in Newest({m \in Listed : Table[m].near > 0}, 8 * Overfetch(limit)) :
                       IncludeSemantic(m) /\ Table[m].near > 1}
        byVector == IF embedder
                    THEN First(vectors, limit,
                               LAMBDA k, m : \/ Table[k].near > Table[m].near
                                             \/ Table[k].near = Table[m].near /\ k > m)
                    ELSE {}
        hits     == {m \in active : /\ Table[m].home = 0 /\ Table[m].hit
                                    /\ Table[m].level = "raw" => request.raw}
        byText   == {m \in Newest(hits, Overfetch(limit)) : IncludeSemantic(m)} \ byVector
    IN  /\ Fill("semantic",
                byVector \cup Newest(byText, Minus(limit, Cardinality(byVector))))
        /\ Goto("semantic", "derived")

\* With a perspective the limit counts every level but contradictions; without
\* one the statement asks for derived memories only.
GatherDerived ==
  LET level == {m \in Listed : IF request.mine THEN Table[m].level # "contradiction"
                                               ELSE Table[m].level = "derived"}
      Firmer(k, m) == \/ Table[k].reinforced > Table[m].reinforced
                      \/ Table[k].reinforced = Table[m].reinforced /\ k > m
      found == First(level, Overfetch(Limit("derived")), Firmer)
  IN  /\ Fill("derived",
              First({m \in found : Table[m].level = "derived" /\ Table[m].sure},
                    Limit("derived"), Firmer))
      /\ Goto("derived", "contradictions")

\* The counter they are listed by is left out.
GatherContradictions ==
  LET found == Newest({m \in Listed : Table[m].level = "contradiction"},
                      Overfetch(Limit("contradictions")))
  IN  /\ Fill("contradictions",
              Newest({m \in found : Table[m].sure}, Limit("contradictions")))
      /\ Goto("contradictions", "rank")

-----------------------------------------------------------------------------
(* Ranking, the context and the answer *)

Gathered == UNION {rep[b] : b \in Buckets}

Priority == [digests |-> 5, contradictions |-> 4, derived |-> 3, semantic |-> 2,
             recent |-> 1]

\* A memory is ranked by the best of the buckets it is in.
Above(k, b, m, c) ==
  \/ Score(k, b) > Score(m, c)
  \/ Score(k, b) = Score(m, c) /\ k > m
  \/ Score(k, b) = Score(m, c) /\ k = m /\ Priority[b] > Priority[c]
Bucket(m) ==
  CHOOSE b \in Buckets :
    m \in rep[b] /\ \A c \in Buckets \ {b} : m \in rep[c] => Above(m, b, m, c)
RankedBefore(k, m) == Above(k, Bucket(k), m, Bucket(m))

\* The budget is the request's own, also where more was gathered.
Rank ==
  /\ pc = "rank"
  /\ included' = IF Cardinality(Gathered) <= request.items THEN Gathered
                 ELSE First(Gathered, request.items, RankedBefore)
  /\ pc' = IF request.explain THEN "explained" ELSE "context"
  /\ UNCHANGED <<active, request, rep, phase, shown, answer, changes>>

PhaseGroupingThreshold == 3

\* build_lightweight_context; nothing included is an empty context.
LightweightContext ==
  /\ pc = "context"
  /\ Cardinality(included) < PhaseGroupingThreshold
  /\ shown' = included
  /\ pc' = "answer"
  /\ UNCHANGED <<active, request, rep, included, phase, answer, changes>>

\* The section of a phase, and what of it is written up to m.
Group(p) == {m \in included : Table[m].phase = p}
UpTo(m)  == {k \in Group(Table[m].phase) : ~RankedBefore(m, k)}

\* A memory is one line of its size.
Length(S)   == Cardinality({c \in S \X (1 .. MaxSize) : c[2] <= Table[c[1]].size})
\* A heading, with the mark of a cut, is one more; a phase without memories has none.
Headings(p) == Cardinality({q \in 1 .. p : Group(q) # {}})
\* The first that does not fit ends its section.
Fitting(p)  == {m \in Group(p) : Length(shown \cup UpTo(m)) + Headings(p) <= MaxChars}

\* format_for_model, one section after the other.
PhaseContext ==
  /\ pc = "context"
  /\ Cardinality(included) >= PhaseGroupingThreshold
  /\ shown' = shown \cup Fitting(phase)
  /\ phase' = phase + 1
  /\ pc' = IF phase = LastPhase THEN "answer" ELSE "context"
  /\ UNCHANGED <<active, request, rep, included, answer, changes>>

\* The statements of the representation can fail, and so can the listing of the
\* namespaces before them, the reflections an explanation ends with and every call
\* of the model; a draft whose refinement fails is dropped.
Fail ==
  /\ \/ pc \in {"answer", "refine"}
     \/ pc \in Gathering
     \/ pc = "rank" /\ request.explain
  /\ pc' = IF request.explain THEN "failed" ELSE "legacy"
  /\ answer' = 0
  /\ UNCHANGED <<active, request, rep, included, phase, shown, changes>>

\* should_refine_answer: never without memories.
GenerateAnswer ==
  /\ pc = "answer"
  /\ answer' \in Qualities
  /\ pc' \in {"answered"} \cup IF included = {} THEN {} ELSE {"refine"}
  /\ UNCHANGED <<active, request, rep, included, phase, shown, changes>>

RefineAnswer ==
  /\ pc = "refine"
  /\ \E refined \in Qualities : answer' = Greatest(answer, refined)
  /\ pc' = "answered"
  /\ UNCHANGED <<active, request, rep, included, phase, shown, changes>>

QueryLegacy ==
  /\ pc = "legacy"
  /\ included' = Newest({m \in active : /\ Table[m].home = 0 /\ Table[m].hit
                                        /\ Table[m].level # "raw"}, request.items)
  /\ shown' = included'
  /\ \/ answer' \in Qualities /\ pc' = "answered"
     \/ answer' = 0 /\ pc' = "failed"
  /\ rep' = [b \in Buckets |-> {}]
  /\ UNCHANGED <<active, request, phase, changes>>

Next ==
  \/ \E m \in active : Archive(m)
  \/ GatherDigests \/ GatherRecent \/ GatherSemantic \/ GatherDerived
  \/ GatherContradictions \/ Rank \/ LightweightContext \/ PhaseContext \/ Fail
  \/ GenerateAnswer \/ RefineAnswer \/ QueryLegacy

Spec == Init /\ [][Next]_vars

-----------------------------------------------------------------------------
(* Properties *)

\* What the buckets gather is not cut by the ranking: their limits add up to the
\* budget whatever it is, wherever they overlap and whatever is archived between
\* their statements (representation.rs:79, ranking.rs:94).  Only of a budget of
\* nothing, query_context_limit = 0, are they given one place, and what is read for
\* it is cut.  Of what is ranked a memory is kept from the model only if, beside all
\* that is shown, it and what its section lists before it do not fit
\* (integration.rs:467); fewer than three are always shown.
NothingGatheredIsCut ==
  pc \in {"answer", "refine"} =>
    /\ Cardinality(included) <= request.items
    /\ request.items > 0 => included = Gathered
    /\ shown \subseteq included
    /\ Cardinality(included) < PhaseGroupingThreshold => shown = included
    /\ \A m \in included \ shown : Length(shown \cup UpTo(m)) + Headings(LastPhase) > MaxChars
=============================================================================
