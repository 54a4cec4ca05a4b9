----------------------------- MODULE MCAggregate ----------------------------
(* Small instances of Aggregate for TLC: two shards with up to two rows    *)
(* each.                                                                   *)
EXTENDS Aggregate

MCShard == 1..2

\* %v goes over to exponents at 10^6.  2^53 is beyond TLC's integers: sums
\* are exact up to 2^24 here.
MCExpFrom == 10^6
MCFloatExact == 2^24

\* Columns on two shards, with NULLs and empty shards, of numbers, of numbers
\* at the limits of sums, and of texts (some look like numbers or NULL).
Columns(cells) == [MCShard -> SeqOf(cells, 2)]
Numbers == Columns({Decimal(0), Decimal(1), Nil})
LargeNumbers ==
  Columns({Decimal(-1), Decimal(600000), Decimal(2^24 + 1), Nil})
Padded(n) == [form |-> "padded", n |-> n]
Blank == [form |-> "blank", n |-> 0]
Texts == Columns({Word(1), Word(2), Nil, Padded(1), Blank})

Literal(n) == [is |-> "literal", n |-> n]
Other(n) == [is |-> "other", n |-> n]

Rows(type) == [type |-> type, agg |-> "none", nested |-> FALSE,
               group |-> FALSE, distinct |-> FALSE, order |-> "none",
               limit |-> Absent, offset |-> Absent]

\* Pages of rows.
Pages ==
  {[Rows("integer") EXCEPT !.distinct = d, !.order = o, !.limit = l, !.offset = f] :
     d \in BOOLEAN, o \in {"none", "asc", "desc", "other"},
     l \in {Absent, Other(2)} \cup {Literal(n) : n \in 0..3},
     f \in {Absent, Other(1)} \cup {Literal(n) : n \in 1..3}}

TextPages ==
  {[Rows("text") EXCEPT !.distinct = d, !.order = o] :
     d \in BOOLEAN, o \in {"none", "asc", "desc"}}

\* Aggregates, alone or nested, with GROUP BY or DISTINCT, and LIMIT.
Aggregates(type, aggs) ==
  {[Rows(type) EXCEPT !.agg = a, !.nested = n, !.group = g, !.distinct = d,
                      !.limit = l] :
     a \in aggs, n \in BOOLEAN, g \in BOOLEAN, d \in BOOLEAN,
     l \in {Absent, Literal(0)}}

MCCases ==
  (Pages \X Numbers) \cup (TextPages \X Texts)
    \cup (Aggregates("integer", {"count", "sum", "max", "min", "avg"})
            \X LargeNumbers)
    \cup (Aggregates("text", {"count", "max", "min"}) \X Texts)

\* Single queries, on which AnswersLikeOne and MergeAnswers fail.
OffsetAlone == {[Rows("integer") EXCEPT !.offset = Literal(1)]} \X Numbers
LimitExpression == {[Rows("integer") EXCEPT !.limit = Other(2)]} \X Numbers
MaxOnly == {[Rows("integer") EXCEPT !.agg = "max"]} \X Numbers
SumOnly == {[Rows("integer") EXCEPT !.agg = "sum"]} \X LargeNumbers
Grouped == {[Rows("integer") EXCEPT !.agg = "count", !.group = TRUE]} \X Numbers
NestedSum == {[Rows("integer") EXCEPT !.agg = "sum", !.nested = TRUE]} \X Numbers
SortedTexts == {[Rows("text") EXCEPT !.order = "asc"]} \X Texts
OtherOrder == {[Rows("integer") EXCEPT !.order = "other"]} \X Numbers
=============================================================================
