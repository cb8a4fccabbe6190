--------------------------- MODULE MCServices ---------------------------
(* Services with concrete migrations, memories and questions. *)
EXTENDS Services, TLC

\* Two events of different sessions; five migrations and their statements.
SessionOf(e)  == e
MCStatements == <<1, 2, 3, 2, 1>>

\* Memories for a query: nine explicit ones of before, one of them unsure, six
\* derived, three contradictions, the digests of two sessions and of an alias, a
\* raw event and, of late, seven explicit ones.  They are of two phases, in twos, and
\* every third is twice as long.
Mem(level, sure, mine, home, hit, near) ==
  [level |-> level, sure |-> sure, mine |-> mine, home |-> home, hit |-> hit,
   near |-> near, reinforced |-> IF level = "derived" THEN 1 ELSE 0]
MCRow(m) ==
  [phase |-> 1 + ((m \div 2) % 2), size |-> IF m % 3 = 0 THEN 2 ELSE 1] @@
    (CASE m <= 9 -> Mem("explicit", m # 2, m # 3, 0, m > 3, IF m > 7 THEN 1 ELSE 2)
       [] m \in 10 .. 15 -> Mem("derived", TRUE, m # 11, 0, FALSE, IF m = 12 THEN 3 ELSE 0)
       [] m \in 16 .. 18 -> Mem("contradiction", m # 17, TRUE, 0, FALSE, 0)
       [] m \in 19 .. 20 -> Mem("short", TRUE, m = 20, 0, FALSE, 0)
       [] m = 21 -> Mem("long", TRUE, TRUE, 0, FALSE, 0)
       [] m = 22 -> Mem("short", TRUE, TRUE, 1, FALSE, 0)
       [] m = 23 -> Mem("raw", TRUE, TRUE, 0, TRUE, 0)
       [] OTHER -> Mem("explicit", TRUE, TRUE, 0, FALSE, 0))
MCTable == [m \in 1 .. 30 |-> MCRow(m)]
MCScore(m, b) == (m * (IF b = "derived" THEN 3 ELSE 2)) % 7
MCAll == {"digests", "recent", "semantic", "derived", "contradictions"}
MCQuestions ==
  [items : {0, 1, 2, 4, 7, 10, 16, 20}, mine : BOOLEAN, raw : {FALSE}, buckets : {MCAll},
   explain : {FALSE}]
  \cup [items : {1, 4}, mine : BOOLEAN, raw : {FALSE}, buckets : {MCAll},
        explain : {TRUE}]
  \cup [items : {3}, mine : {TRUE}, raw : {TRUE},
        buckets : {{"recent", "semantic"}, MCAll}, explain : {FALSE}]
=============================================================================
