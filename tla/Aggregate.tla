----------------------------- MODULE Aggregate ------------------------------
(***************************************************************************)
(* Scatter queries: package aggregate, with the loop over the tablets in   *)
(* gateway.executeAutocommit (coordinator.executeScatter has the same).    *)
(* A query selects one column, or one aggregate of it, from a table whose  *)
(* rows are spread over the shards.  The answer of the gate is compared    *)
(* with the one a single tablet with the whole table would give.           *)
(***************************************************************************)
EXTENDS Integers, SequencesExt

CONSTANTS
  Shard,      \* 1..n, in the order of Route's tablets (not 1: one tablet gets
              \* the query as it is)
  Cases,      \* pairs of a query and what the shards hold: for each of them a
              \* sequence of texts
  ExpFrom,    \* %v prints a float64 from here on as 1e+06 (10^6)
  FloatExact  \* the integers up to here are float64s (2^53)

ASSUME AggregateAssumption ==
  0 < ExpFrom /\ ExpFrom < FloatExact /\ FloatExact \in Nat

VARIABLES
  q,        \* the query
  data,     \* data[s]: the column on shard s, as the tablet sends it
  asked,    \* shards that have answered
  rows,     \* merged.Results, one after the other
  pc,       \* "ask", "done", "failed" (a shard did) or "unsorted" (Merge did)
  result    \* rows of the answer

vars == <<q, data, asked, rows, pc, result>>

-----------------------------------------------------------------------------
(* A query is a record: the type of its column ("integer" or "text"), the  *)
(* aggregate ("none", "count", "sum", "max", "min" or "avg") and whether   *)
(* it is nested in an expression, GROUP BY the column, DISTINCT, ORDER BY  *)
(* ("none", "asc", "desc", or "other": a column that is not selected),     *)
(* LIMIT and OFFSET.                                                       *)

-----------------------------------------------------------------------------
(* Texts.  A tablet sends every value as a text.  Of a text the model      *)
(* keeps what ParseInt and ParseFloat make of it:                          *)
(*   decimal   the integer n, written as %v writes it                      *)
(*   padded    the integer n, written otherwise: 007                       *)
(*   exponent  the number n, which ParseInt does not take: 1e+06           *)
(*   word      no number; n orders the words, and comes after all numbers  *)
(*   blank     the empty text, NULL or null                                *)
(* NULL is sent as the text "<nil>", a word before those with a letter.    *)
(* What ParseBool takes for a truth value (t, True) is left out.           *)

Decimal(n) == [form |-> "decimal", n |-> n]
Word(n) == [form |-> "word", n |-> n]
Nil == Word(0)

Magnitude(n) == IF n < 0 THEN -n ELSE n

\* The float64 nearest to n, the even one of two.
Float(n) ==
  LET m == Magnitude(n)
      ulp == Min({u \in {2^k : k \in 0..12} : (m + u - 1) \div u <= FloatExact})
      below == m \div ulp
      up == 2 * (m % ulp) + (below % 2) > ulp
      f == ulp * IF up THEN below + 1 ELSE below
  IN  IF n < 0 THEN -f ELSE f

inferType(t) ==
  CASE t.form \in {"decimal", "padded"} -> [type |-> "int64", n |-> t.n]
    [] t.form = "exponent" -> [type |-> "float64", n |-> Float(t.n)]
    [] t.form = "blank"    -> [type |-> "nil", n |-> 0]
    [] t.form = "word"     -> [type |-> "string", n |-> t.n]

\* %v of a value.
Sprint(v) ==
  CASE v.type = "int64"   -> Decimal(v.n)
    [] v.type = "float64" -> IF Magnitude(v.n) < ExpFrom THEN Decimal(v.n)
                             ELSE [form |-> "exponent", n |-> v.n]
    [] v.type = "nil"     -> Nil
    [] v.type = "string"  -> Word(v.n)

-----------------------------------------------------------------------------
(* PostgreSQL, behind a tablet                                             *)

NotNull(s) == SelectSeq(s, LAMBDA t : t # Nil)
Total(s) == FoldLeft(LAMBDA sum, t : sum + t.n, 0, s)
Occurs(t, s) == Len(SelectSeq(s, LAMBDA u : u = t))
Dedup(s) == FoldLeft(LAMBDA out, t : IF t \in ToSet(out) THEN out
                                     ELSE Append(out, t), <<>>, s)

\* The value of an aggregate over the column s (averages rounded down).
AggregateOf(agg, s) ==
  LET t == NotNull(s) IN
  CASE agg = "count" -> Decimal(Len(s))
    [] t = <<>>      -> Nil
    [] agg = "sum"   -> Decimal(Total(t))
    [] agg = "avg"   -> Decimal(Total(t) \div Len(t))
    [] agg = "max"   -> CHOOSE v \in ToSet(t) : \A w \in ToSet(t) : w.n <= v.n
    [] agg = "min"   -> CHOOSE v \in ToSet(t) : \A w \in ToSet(t) : v.n <= w.n

\* The rows of query x over the column s, in some order, before LIMIT and
\* OFFSET.
Select(x, s) ==
  LET groups == Dedup(s) IN
  CASE x.agg = "none" -> IF x.distinct \/ x.group THEN groups ELSE s
    [] x.agg # "none" /\ x.group ->
         [j \in DOMAIN groups |->
            AggregateOf(x.agg, SelectSeq(s, LAMBDA t : t = groups[j]))]
    [] OTHER -> <<AggregateOf(x.agg, s)>>

-----------------------------------------------------------------------------
(* The plan.  LIMIT and OFFSET of a query are [is |-> "absent"], or an     *)
(* expression with the value n: an integer "literal", or "other".          *)

evalIntExpr(e) == IF e.is = "literal" THEN e.n ELSE 0

\* An aggregate is seen when it is the whole expression: not in SUM(v) + 1.
analyzeSelectExpr(x) == IF x.nested THEN "none" ELSE x.agg

ExtractPlan(x) ==
  [Distinct |-> x.distinct,
   Agg      |-> analyzeSelectExpr(x),
   OrderBy  |-> x.order,
   Limit    |-> IF x.limit.is = "absent" THEN -1 ELSE evalIntExpr(x.limit),
   Offset   |-> IF x.offset.is = "absent" THEN 0 ELSE evalIntExpr(x.offset)]

NeedsShardRewrite(plan) ==
  plan.OrderBy # "none" \/ plan.Limit >= 0 \/ plan.Offset > 0 \/ plan.Distinct

\* The condition executeAutocommit and executeScatter put on merging.
NeedsMerge(plan) ==
  \/ plan.Agg # "none" \/ plan.Distinct \/ plan.OrderBy # "none"
  \/ plan.Limit >= 0

Absent == [is |-> "absent"]

\* StripForScatter drops DISTINCT, ORDER BY, LIMIT and OFFSET and keeps
\* aggregates and GROUP BY.
StripForScatter(x) ==
  [x EXCEPT !.distinct = FALSE, !.order = "none",
            !.limit = Absent, !.offset = Absent]

\* The query the shards get.
ShardQuery(x) ==
  IF NeedsShardRewrite(ExtractPlan(x)) THEN StripForScatter(x) ELSE x

-----------------------------------------------------------------------------
(* Merging                                                                 *)

flattenResults(s) == [j \in DOMAIN s |-> inferType(s[j])]

Numeric(v) == v.type \in {"int64", "float64"}

\* comparableValue: numbers of two types as float64s, a number and a word as
\* texts; nil is not less than anything.
lessThan(v, w) ==
  /\ v.type # "nil"
  /\ \/ w.type = "nil"
     \/ v.type = w.type /\ v.n < w.n
     \/ v.type # w.type /\ Numeric(v) /\ Numeric(w) /\ Float(v.n) < Float(w.n)
     \/ Numeric(v) /\ w.type = "string"

equal(v, w) ==
  IF v.type # w.type /\ Numeric(v) /\ Numeric(w) THEN Float(v.n) = Float(w.n)
  ELSE v = w

\* Mutant of less: DESC is taken for ASC.
lessAscending(order, v, w) == ~equal(v, w) /\ lessThan(v, w)

less(order, v, w) ==
  /\ ~equal(v, w)
  /\ IF order = "desc" THEN lessThan(w, v) ELSE lessThan(v, w)

Swap(s, i, j) == [s EXCEPT ![i] = s[j], ![j] = s[i]]

\* The loop of partition, with the pivot at hi: i is where the next smaller
\* row goes.
partition(s, order, lo, hi) ==
  LET step(acc, j) == IF less(order, acc.s[j], acc.s[hi])
                      THEN [s |-> Swap(acc.s, acc.i, j), i |-> acc.i + 1]
                      ELSE acc
      end == FoldLeft(step, [s |-> s, i |-> lo],
                      [k \in 1..hi - lo |-> lo + k - 1])
  IN  [s |-> Swap(end.s, end.i, hi), i |-> end.i]

RECURSIVE qSort(_, _, _, _)
qSort(s, order, lo, hi) ==
  IF lo >= hi THEN s
  ELSE LET p == partition(s, order, lo, hi)
       IN  qSort(qSort(p.s, order, lo, p.i - 1), order, p.i + 1, hi)

\* rowKey: nil has a key that no text has.
rowKey(v) == IF v.type = "nil" THEN [form |-> "blank", n |-> 0] ELSE Sprint(v)

\* The first of the rows with equal keys.
applyDistinct(s) ==
  FoldLeft(LAMBDA out, v :
             IF \E u \in ToSet(out) : rowKey(u) = rowKey(v) THEN out
             ELSE Append(out, v), <<>>, s)

Known(s) == SelectSeq(s, LAMBDA v : v.type # "nil")
NoValue == [type |-> "nil", n |-> 0]

\* A word is 0 to ParseFloat, whose error is dropped; so is "<nil>".
toFloat64(v) == IF Numeric(v) THEN Float(v.n) ELSE 0

aggSumInt64(s) ==
  [type |-> "int64", n |-> Total(SelectSeq(s, LAMBDA v : Numeric(v)))]

aggSum(s) ==
  IF Known(s) = <<>> THEN NoValue
  ELSE [type |-> "float64",
        n |-> FoldLeft(LAMBDA sum, v : Float(sum + toFloat64(v)), 0, Known(s))]

\* The first of the rows that no other is greater, or less, than.
aggMax(s) ==
  FoldLeft(LAMBDA m, v : IF m = NoValue \/ lessThan(m, v) THEN v ELSE m,
           NoValue, Known(s))
aggMin(s) ==
  FoldLeft(LAMBDA m, v : IF m = NoValue \/ lessThan(v, m) THEN v ELSE m,
           NoValue, Known(s))

\* The average of the first shard.
bestEffortAvg(s) ==
  IF Known(s) = <<>> THEN NoValue
  ELSE [type |-> "float64", n |-> toFloat64(Head(Known(s)))]

applyAggregation(agg, s) ==
  CASE agg = "count" -> aggSumInt64(s)
    [] agg = "sum"   -> aggSum(s)
    [] agg = "max"   -> aggMax(s)
    [] agg = "min"   -> aggMin(s)
    [] agg = "avg"   -> bestEffortAvg(s)

applyLimitOffset(s, offset, limit) ==
  LET n == Len(s)
      start == Min({offset, n})
      end == IF limit >= 0 THEN Min({start + limit, n}) ELSE n
  IN  SubSeq(s, start + 1, end)

\* The rows before sorting.
Combined(plan, s) ==
  LET all == flattenResults(s)
      d == IF plan.Distinct THEN applyDistinct(all) ELSE all
  IN  IF plan.Agg # "none" THEN <<applyAggregation(plan.Agg, d)>> ELSE d

\* ORDER BY a column that is not selected is an error of sortRows.
SortFails(plan, s) == plan.OrderBy = "other" /\ Len(Combined(plan, s)) > 1

MergeScatterResponses(plan, s) ==
  LET c == Combined(plan, s)
      t == IF plan.OrderBy = "none" THEN c ELSE qSort(c, plan.OrderBy, 1, Len(c))
      page == IF plan.Limit >= 0 \/ plan.Offset > 0
              THEN applyLimitOffset(t, plan.Offset, plan.Limit) ELSE t
  IN  [j \in DOMAIN page |-> Sprint(page[j])]

-----------------------------------------------------------------------------

Init ==
  /\ \E c \in Cases : q = c[1] /\ data = c[2]
  /\ asked = 0 /\ rows = <<>> /\ pc = "ask" /\ result = <<>>

\* The next shard answers, its rows in any order, and without the first ones
\* if an OFFSET was left in the query ...
Ask ==
  /\ pc = "ask" /\ asked + 1 \in Shard
  /\ LET x == ShardQuery(q)
         all == Select(x, data[asked + 1])
         skip == IF x.offset.is = "absent" THEN 0 ELSE x.offset.n
     IN \E p \in {f \in [DOMAIN all -> DOMAIN all] :
                    \A i, j \in DOMAIN all : f[i] = f[j] => i = j} :
          rows' = rows \o SubSeq([j \in DOMAIN all |-> all[p[j]]],
                                 skip + 1, Len(all))
  /\ asked' = asked + 1
  /\ UNCHANGED <<q, data, pc, result>>

\* ... or fails, and with it the query.
AskFails ==
  /\ pc = "ask" /\ asked + 1 \in Shard
  /\ pc' = "failed"
  /\ UNCHANGED <<q, data, asked, rows, result>>

Merge ==
  LET plan == ExtractPlan(q) IN
  /\ pc = "ask" /\ asked + 1 \notin Shard
  /\ IF NeedsMerge(plan) /\ SortFails(plan, rows)
     THEN pc' = "unsorted" /\ UNCHANGED result
     ELSE /\ pc' = "done"
          /\ result' = IF NeedsMerge(plan) THEN MergeScatterResponses(plan, rows)
                       ELSE rows
  /\ UNCHANGED <<q, data, asked, rows>>

Next == Ask \/ AskFails \/ Merge

Spec == Init /\ [][Next]_vars

-----------------------------------------------------------------------------
(* What the merge does not do right.  No document names these cases.       *)

Table == FlattenSeq([s \in Shard |-> data[s]])
Empty(s) == NotNull(data[s]) = <<>>

\* There is no merge for it: an aggregate in an expression, groups, averages,
\* DISTINCT over partial counts and sums; an OFFSET alone is dropped, and
\* LIMIT and OFFSET are 0 unless they are integer literals.
NoMerge ==
  \/ q.nested \/ q.group \/ q.agg = "avg"
  \/ q.distinct /\ q.agg \in {"count", "sum"}
  \/ q.limit.is = "other" \/ q.offset.is = "other"
  \/ ExtractPlan(q).Offset > 0 /\ ~NeedsMerge(ExtractPlan(q))

\* NULL is taken for a text that follows the numbers and precedes the words,
\* and for 0 in a sum.
NullTaken ==
  CASE q.agg = "none" ->
         q.type = "text" /\ q.order # "none" /\ Nil \in ToSet(Table)
    [] q.agg = "sum" -> \A s \in Shard : Empty(s)
    [] q.agg = (IF q.type = "text" THEN "min" ELSE "max") ->
         (\E s \in Shard : Empty(s)) /\ \E s \in Shard : ~Empty(s)
    [] OTHER -> FALSE

\* A text is taken for a number or for NULL.
TextTaken ==
  q.type = "text" /\ \E t \in ToSet(Table) : t.form # "word"

\* A sum that %v prints with an exponent, or that is not exact.
SumRounded ==
  LET magnitudes == [s \in Shard |-> Magnitude(Total(data[s]))] IN
  q.agg = "sum" /\ \/ Magnitude(Total(Table)) >= ExpFrom
                   \/ FoldLeft(+, 0, magnitudes) > FloatExact

-----------------------------------------------------------------------------
(* Properties                                                              *)

\* The number of rows of a page when the full answer has n.
PageLen(n) ==
  LET m == IF q.offset.is = "absent" THEN n ELSE Max({0, n - q.offset.n})
  IN  IF q.limit.is = "absent" THEN m ELSE Min({m, q.limit.n})

\* PostgreSQL's order: NULLs are last, or first with DESC.
Precedes(t, u) ==
  LET before(v, w) == v # Nil /\ (w = Nil \/ v.n < w.n)
  IN  IF q.order = "desc" THEN before(u, t) ELSE before(t, u)

\* The answer is one PostgreSQL could give for the whole table: the right
\* number of rows, none that is not in the full answer or too often, and with
\* ORDER BY exactly the rows of the page asked for, in order.
Right ==
  LET full == Select(q, Table)
      skip == IF q.offset.is = "absent" THEN 0 ELSE q.offset.n
      rank(t) == Len(SelectSeq(full, LAMBDA u : Precedes(u, t)))
  IN  /\ Len(result) = PageLen(Len(full))
      /\ \A t \in ToSet(result) : Occurs(t, result) <= Occurs(t, full)
      /\ q.order \in {"asc", "desc"} =>
           \A j \in DOMAIN result :
             /\ rank(result[j]) < skip + j
             /\ skip + j <= rank(result[j]) + Occurs(result[j], full)

\* The merged answer to a scatter query is, text for text, one that a tablet
\* with the whole table would send, however the rows are spread over the
\* shards and in whatever order these send them, but for the cases above.
MergeCorrect ==
  pc = "done" => Right \/ NoMerge \/ NullTaken \/ TextTaken \/ SumRounded

\* The same of all queries (README.md: "No application changes needed").
AnswersLikeOne == pc = "done" => Right

\* A query that no shard failed is answered: the gate adds no errors of its
\* own (README.md: "No application changes needed").
MergeAnswers == pc # "unsorted"

=============================================================================
