---------------------------- MODULE ContentTypes ----------------------------
(***************************************************************************)
(* The shape of the curriculum's content (apps/api/prisma/seed/types.ts):  *)
(* levels of blocks, each with its sandbox datasets and its tasks.         *)
(*                                                                         *)
(* A dataset keeps the tables its SQL creates and the tables shown to the  *)
(* learner, each with its columns.  A task keeps its position, the dataset *)
(* it names, how answers to it are compared, the tables its reference      *)
(* query reads, and that query's answer: a sequence of row numbers, equal  *)
(* for equal rows, of which all but the last digit is the row's place      *)
(* under the query's ORDER BY (rows 20 and 21 are two different rows the   *)
(* order does not tell apart).  Prose, hints and cell values are left out. *)
(***************************************************************************)
EXTENDS Integers, SequencesExt

Dataset(name, tables, shown) ==
  [name |-> name, setup |-> tables, schema |-> shown]

Task(order, dataset, mode, reads, answer) ==
  [order |-> order, dataset |-> dataset, mode |-> mode, reads |-> reads,
   answer |-> answer, named |-> TRUE]

Ordered(order, dataset, reads, answer) ==
  Task(order, dataset, "ORDERED", reads, answer)

Unordered(order, dataset, reads, answer) ==
  Task(order, dataset, "UNORDERED", reads, answer)

\* A task whose text does not say how the columns of its answer are called.
Untitled(task) == [task EXCEPT !.named = FALSE]

Block(order, datasets, tasks) ==
  [order |-> order, datasets |-> datasets, tasks |-> tasks]

\* An answer of n different rows, each with a place of its own.
Rows(n) == [i \in 1..n |-> 10 * i]

\* The place the ORDER BY gives a row.
Place(row) == row \div 10

\* What the datasets of a block are called.
NamesOf(block) == {block.datasets[i].name : i \in DOMAIN block.datasets}

DatasetNamed(block, name) ==
  SelectSeq(block.datasets, LAMBDA d : d.name = name)[1]
=============================================================================
