-------------------------- MODULE LogContextProofs --------------------------
(* Proofs about LogContext, for trees of contexts of any size: nothing of    *)
(* another request gets into a record, and a chain loses nothing.  What a    *)
(* context should log (Added) is defined by recursion over the tree; that    *)
(* the recursion has one solution is an invariant like the others, because   *)
(* the tree grows by one context at a time.                                  *)
EXTENDS LogContext, TLAPS

(* A cell of the slice of a context, as a record made with it sees it.       *)
Cell(c, i) == arrays[contexts[c].array][i]
CellNext(c, i) == arrays'[contexts'[c].array][i]

(* A call of AppendCtx as its slices show it: one context more, whose slice  *)
(* is its parent's and the new attribute, in the parent's array or in one of *)
(* its own; no cell changes but the one behind the parent's slice.           *)
Extends(parent, n) ==
  /\ n = Len(contexts) + 1
  /\ Len(contexts') = n
  /\ Context' = Context \cup {n}
  /\ \A c \in Context : contexts'[c] = contexts[c]
  /\ contexts'[n].parent = parent
  /\ contexts'[n].len = IF parent = 0 THEN 1 ELSE contexts[parent].len + 1
  /\ CellNext(n, contexts'[n].len) = n
  /\ parent # 0 => \A i \in 1 .. contexts[parent].len : CellNext(n, i) = Cell(parent, i)
  /\ \/ \A c \in Context : contexts[c].array # contexts'[n].array
     \/ parent # 0 /\ contexts[parent].array = contexts'[n].array
  /\ \A c \in Context : \A i \in 1 .. contexts[c].len :
       \/ CellNext(c, i) = Cell(c, i)
       \/ contexts[c].array = contexts'[n].array /\ i = contexts'[n].len

(* The lengths of all sequences, and the ranges that go with them.           *)
LEMMA Shape ==
  ASSUME TypeOK
  PROVE  /\ Len(contexts) \in Nat /\ Len(arrays) \in Nat
         /\ \A a \in 1 .. Len(arrays) :
              /\ arrays[a] \in Seq(Nat) /\ Len(arrays[a]) \in Nat
              /\ \A i \in 1 .. Len(arrays[a]) : arrays[a][i] \in 0 .. Len(contexts)
         /\ \A c \in Context :
              /\ c \in 1 .. Len(contexts)
              /\ contexts[c].parent \in 0 .. c - 1
              /\ contexts[c].root \in 1 .. c
              /\ contexts[c].array \in 1 .. Len(arrays)
              /\ contexts[c].len \in 1 .. Len(arrays[contexts[c].array])
              /\ contexts[c].len \in Nat
<1>1. Len(contexts) \in Nat
  BY DEF TypeOK
<1>2. Len(arrays) \in Nat
  BY DEF TypeOK
<1>3. \A a \in 1 .. Len(arrays) : arrays[a] \in Seq(Nat)
  BY <1>2 DEF TypeOK
<1>4. \A a \in 1 .. Len(arrays) : Len(arrays[a]) \in Nat
  BY <1>3
<1>5. \A a \in 1 .. Len(arrays) : \A i \in 1 .. Len(arrays[a]) :
        arrays[a][i] \in 0 .. Len(contexts)
  BY <1>1, <1>2 DEF TypeOK
<1>6. ASSUME NEW c \in Context
      PROVE  /\ contexts[c].parent \in 0 .. c - 1
             /\ contexts[c].root \in 1 .. c
             /\ contexts[c].array \in 1 .. Len(arrays)
             /\ contexts[c].len \in 1 .. Len(arrays[contexts[c].array])
  BY <1>1, <1>2 DEF TypeOK, Context
<1>7. \A c \in Context : contexts[c].len \in Nat
  BY <1>4, <1>6
<1> QED
  BY <1>1, <1>2, <1>3, <1>4, <1>5, <1>6, <1>7 DEF Context

(* ... and back, for the next state.                                         *)
LEMMA ShapeSuffices ==
  ASSUME contexts' \in Seq([parent : Nat, root : Nat, array : Nat, len : Nat]),
         arrays' \in Seq(Seq(Nat)),
         Len(contexts') <= MaxContexts,
         \A c \in Context' :
           /\ contexts'[c].parent \in 0 .. c - 1
           /\ contexts'[c].root \in 1 .. c
           /\ contexts'[c].array \in 1 .. Len(arrays')
           /\ contexts'[c].len \in 1 .. Len(arrays'[contexts'[c].array]),
         \A a \in 1 .. Len(arrays') : \A i \in 1 .. Len(arrays'[a]) :
           arrays'[a][i] \in 0 .. Len(contexts')
  PROVE  TypeOK'
BY Zenon DEF TypeOK

LEMMA CellsOf ==
  ASSUME IInv, NEW c \in Context, NEW i \in 1 .. contexts[c].len
  PROVE  /\ Cell(c, i) \in Context
         /\ contexts[Cell(c, i)].root = contexts[c].root
<1>1. Handle(c)[i] = Cell(c, i)
  BY DEF Handle, Cell
<1>2. Cell(c, i) \in 0 .. Len(contexts)
  <2>1. i \in 1 .. Len(arrays[contexts[c].array])
    BY Shape DEF IInv
  <2> QED
    BY <2>1, Shape DEF IInv, Cell
<1>3. Cell(c, i) # 0 /\ contexts[Cell(c, i)].root = contexts[c].root
  BY <1>1 DEF IInv, NoMixing
<1> QED
  BY <1>2, <1>3, Shape DEF IInv, Context

(* NoMixing of the next state, cell by cell.                                 *)
LEMMA CellsSuffice ==
  ASSUME \A c \in Context' : \A i \in 1 .. contexts'[c].len :
           CellNext(c, i) # 0 /\ contexts'[CellNext(c, i)].root = contexts'[c].root
  PROVE  NoMixing'
BY DEF NoMixing, Handle, Cell, CellNext

(* What every call of AppendCtx does to the list of contexts.                *)
LEMMA NewContextType ==
  ASSUME TypeOK, Len(contexts) < MaxContexts,
         NEW parent \in 0 .. Len(contexts), NEW array \in Nat, NEW len \in Nat,
         NewContext(parent, array, len)
  PROVE  /\ contexts' \in Seq([parent : Nat, root : Nat, array : Nat, len : Nat])
         /\ Len(contexts') = Len(contexts) + 1
         /\ Len(contexts') <= MaxContexts
         /\ \A c \in Context : contexts'[c] = contexts[c]
         /\ contexts'[Len(contexts) + 1].parent = parent
         /\ contexts'[Len(contexts) + 1].array = array
         /\ contexts'[Len(contexts) + 1].len = len
         /\ contexts'[Len(contexts) + 1].root =
              IF parent = 0 THEN Len(contexts) + 1 ELSE contexts[parent].root
         /\ contexts'[Len(contexts) + 1].root \in 1 .. Len(contexts) + 1
<1> DEFINE root == IF parent = 0 THEN Len(contexts) + 1 ELSE contexts[parent].root
           new == [parent |-> parent, array |-> array, len |-> len, root |-> root]
<1>0. Len(contexts) \in Nat
  BY Shape
<1>1. root \in 1 .. Len(contexts) + 1
  <2>1. CASE parent = 0
    BY <1>0, <2>1
  <2>2. CASE parent # 0
    <3>1. parent \in Context
      BY <1>0, <2>2 DEF Context
    <3> QED
      BY <1>0, <2>2, <3>1, Shape
  <2> QED
    BY <2>1, <2>2
<1>2. new \in [parent : Nat, root : Nat, array : Nat, len : Nat]
  BY <1>0, <1>1
<1>3. contexts' = Append(contexts, new)
  BY DEF NewContext
<1>4. contexts \in Seq([parent : Nat, root : Nat, array : Nat, len : Nat])
  BY DEF TypeOK
<1> HIDE DEF new
<1>5. /\ contexts' \in Seq([parent : Nat, root : Nat, array : Nat, len : Nat])
      /\ Len(contexts') = Len(contexts) + 1
      /\ \A c \in 1 .. Len(contexts) : contexts'[c] = contexts[c]
      /\ contexts'[Len(contexts) + 1] = new
  BY <1>0, <1>2, <1>3, <1>4
<1> HIDE DEF root
<1>6. new.parent = parent /\ new.array = array /\ new.len = len /\ new.root = root
  BY DEF new
<1> QED
  BY <1>0, <1>1, <1>5, <1>6, MaxContextsAssumption DEF Context, root

-----------------------------------------------------------------------------
(* Assignment to an element of a sequence.                                   *)
LEMMA SetElement ==
  ASSUME NEW S, NEW s \in Seq(S), NEW l \in 1 .. Len(s), NEW x \in S
  PROVE  /\ [s EXCEPT ![l] = x] \in Seq(S)
         /\ Len([s EXCEPT ![l] = x]) = Len(s)
<1>1. [s EXCEPT ![l] = x] \in [1 .. Len(s) -> S]
  OBVIOUS
<1>2. Len(s) \in Nat
  OBVIOUS
<1> QED
  BY <1>1, <1>2

LEMMA InRange ==
  ASSUME NEW a \in Nat, NEW n, n = a + 1
  PROVE  /\ \A y \in 0 .. a : y \in 0 .. n
         /\ n \in 0 .. n
         /\ 1 .. n = 1 .. a \cup {n}
OBVIOUS

(* The types of the next state, the new context apart from the old ones.  A  *)
(* step leaves the old arrays as long as they are, and may add one.          *)
LEMMA TypeStep ==
  ASSUME TypeOK,
         NEW n, n = Len(contexts) + 1, Context' = Context \cup {n},
         contexts' \in Seq([parent : Nat, root : Nat, array : Nat, len : Nat]),
         Len(contexts') = n, n <= MaxContexts,
         \A c \in Context : contexts'[c] = contexts[c],
         arrays' \in Seq(Seq(Nat)), Len(arrays') \in Nat, Len(arrays) <= Len(arrays'),
         \A a \in 1 .. Len(arrays) : Len(arrays'[a]) = Len(arrays[a]),
         \A a \in 1 .. Len(arrays') : \A i \in 1 .. Len(arrays'[a]) : arrays'[a][i] \in 0 .. n,
         contexts'[n].parent \in 0 .. n - 1,
         contexts'[n].root \in 1 .. n,
         contexts'[n].array \in 1 .. Len(arrays'),
         contexts'[n].len \in 1 .. Len(arrays'[contexts'[n].array])
  PROVE  TypeOK'
<1>1. ASSUME NEW c \in Context
      PROVE  /\ contexts'[c].parent \in 0 .. c - 1
             /\ contexts'[c].root \in 1 .. c
             /\ contexts'[c].array \in 1 .. Len(arrays')
             /\ contexts'[c].len \in 1 .. Len(arrays'[contexts'[c].array])
  <2>1. contexts'[c] = contexts[c]
    OBVIOUS
  <2>2. contexts[c].array \in 1 .. Len(arrays) /\ Len(arrays) \in Nat
    BY Shape
  <2>3. Len(arrays'[contexts[c].array]) = Len(arrays[contexts[c].array])
    BY <2>2
  <2>4. contexts[c].array \in 1 .. Len(arrays')
    <3> DEFINE x == contexts[c].array
               m == Len(arrays)
    <3>1. x \in 1 .. m /\ m \in Nat /\ m <= Len(arrays')
      BY <2>2
    <3> HIDE DEF x, m
    <3>2. x \in 1 .. Len(arrays')
      BY <3>1
    <3> QED
      BY <3>2 DEF x
  <2> QED
    BY <2>1, <2>3, <2>4, Shape
<1> QED
  BY <1>1, ShapeSuffices

(* A slice of the next state that lies in an array of one of its own request.*)
LEMMA ArrayStep ==
  ASSUME ArrayInv, NEW n, Context' = Context \cup {n},
         \A c \in Context : contexts'[c] = contexts[c],
         \A c \in Context : contexts[c].array = contexts'[n].array =>
                              contexts[c].root = contexts'[n].root
  PROVE  ArrayInv'
<1> SUFFICES ASSUME NEW c \in Context', NEW d \in Context',
                    contexts'[c].array = contexts'[d].array
             PROVE  contexts'[c].root = contexts'[d].root
  BY DEF ArrayInv
<1>1. CASE c \in Context /\ d \in Context
  BY <1>1 DEF ArrayInv
<1>2. CASE c = n \/ d = n
  BY <1>2
<1> QED
  BY <1>1, <1>2

(* A cell of the next state that shows what a context of the same request    *)
(* showed, or the new attribute.                                             *)
LEMMA CellStep ==
  ASSUME IInv, NEW n, n \in Nat \ {0}, Context' = Context \cup {n},
         \A c \in Context : contexts'[c] = contexts[c],
         \A c \in Context' : \A i \in 1 .. contexts'[c].len :
           \/ /\ CellNext(c, i) = n
              /\ contexts'[n].root = contexts'[c].root
           \/ \E b \in Context : /\ i \in 1 .. contexts[b].len
                                 /\ CellNext(c, i) = Cell(b, i)
                                 /\ contexts[b].root = contexts'[c].root
  PROVE  NoMixing'
<1> SUFFICES ASSUME NEW c \in Context', NEW i \in 1 .. contexts'[c].len
             PROVE  CellNext(c, i) # 0 /\ contexts'[CellNext(c, i)].root = contexts'[c].root
  BY CellsSuffice
<1>1. CASE CellNext(c, i) = n /\ contexts'[n].root = contexts'[c].root
  BY <1>1
<1>2. ASSUME NEW b \in Context, i \in 1 .. contexts[b].len,
             CellNext(c, i) = Cell(b, i), contexts[b].root = contexts'[c].root
      PROVE  CellNext(c, i) # 0 /\ contexts'[CellNext(c, i)].root = contexts'[c].root
  <2>1. Cell(b, i) \in Context /\ contexts[Cell(b, i)].root = contexts[b].root
    BY <1>2, CellsOf
  <2>2. Cell(b, i) # 0
    BY <2>1 DEF Context
  <2> QED
    BY <1>2, <2>1, <2>2
<1> QED
  BY <1>1, <1>2

-----------------------------------------------------------------------------
LEMMA FreshInv ==
  ASSUME IInv, Len(contexts) < MaxContexts, AppendToFresh(Len(contexts) + 1)
  PROVE  IInv' /\ Extends(0, Len(contexts) + 1)
<1> DEFINE n == Len(contexts) + 1
           k == Len(arrays) + 1
<1>1. TypeOK /\ Len(contexts) \in Nat /\ Len(arrays) \in Nat
  BY Shape DEF IInv
<1>n. NewContext(0, k, 1) /\ 0 \in 0 .. Len(contexts) /\ k \in Nat /\ 1 \in Nat
  BY <1>1 DEF AppendToFresh
<1>a. contexts' \in Seq([parent : Nat, root : Nat, array : Nat, len : Nat])
  BY <1>1, <1>n, NewContextType
<1>2. /\ Len(contexts') = n /\ n <= MaxContexts
      /\ \A c \in Context : contexts'[c] = contexts[c]
      /\ contexts'[n].parent = 0 /\ contexts'[n].array = k /\ contexts'[n].len = 1
      /\ contexts'[n].root = n
  BY <1>1, <1>n, NewContextType
<1>b. arrays' = Append(arrays, <<n>>) /\ <<n>> \in Seq(Nat) /\ arrays \in Seq(Seq(Nat))
  BY <1>1 DEF AppendToFresh, TypeOK
<1>c. arrays' \in Seq(Seq(Nat))
  BY <1>b
<1>3. /\ Len(arrays') = k
      /\ \A a \in 1 .. Len(arrays) : arrays'[a] = arrays[a]
      /\ arrays'[k] = <<n>>
  BY <1>1, <1>b
<1>4. Len(<<n>>) = 1 /\ <<n>>[1] = n
  OBVIOUS
<1>5. n \in Nat /\ k \in Nat /\ n = Len(contexts) + 1 /\ k = Len(arrays) + 1
  BY <1>1
<1>6. Context' = Context \cup {n}
  BY <1>1, <1>2 DEF Context
<1> HIDE DEF n, k
<1>7. TypeOK'
  <2>1. ASSUME NEW a \in 1 .. Len(arrays), NEW i \in 1 .. Len(arrays'[a])
        PROVE  arrays'[a][i] \in 0 .. n
    <3>1. arrays'[a] = arrays[a] /\ arrays[a][i] \in 0 .. Len(contexts)
      BY <1>1, <1>3, <2>1, Shape
    <3> QED
      BY <1>1, <1>5, <3>1
  <2>2. ASSUME NEW i \in 1 .. Len(arrays'[k])
        PROVE  arrays'[k][i] \in 0 .. n
    BY <1>3, <1>4, <1>5
  <2>3. 1 .. Len(arrays') = 1 .. Len(arrays) \cup {k}
    BY <1>1, <1>3, <1>5
  <2>4. \A a \in 1 .. Len(arrays') : \A i \in 1 .. Len(arrays'[a]) : arrays'[a][i] \in 0 .. n
    BY <2>1, <2>2, <2>3
  <2>5. /\ contexts'[n].parent \in 0 .. n - 1
        /\ contexts'[n].root \in 1 .. n
        /\ contexts'[n].array \in 1 .. Len(arrays')
        /\ contexts'[n].len \in 1 .. Len(arrays'[contexts'[n].array])
    BY <1>1, <1>2, <1>3, <1>4, <1>5
  <2>6. Len(arrays') \in Nat /\ Len(arrays) <= Len(arrays')
    BY <1>1, <1>3, <1>5
  <2>7. \A a \in 1 .. Len(arrays) : Len(arrays'[a]) = Len(arrays[a])
    BY <1>3
  <2> QED
    BY <1>1, <1>2, <1>3, <1>5, <1>6, <1>a, <1>c, <2>4, <2>5, <2>6, <2>7, TypeStep
<1>8. ArrayInv'
  <2>1. \A c \in Context : contexts[c].array # k
    BY <1>1, <1>5, Shape
  <2> QED
    BY <1>2, <1>6, <2>1, ArrayStep DEF IInv
<1>9. NoMixing'
  <2>1. ASSUME NEW c \in Context, NEW i \in 1 .. contexts'[c].len
        PROVE  /\ i \in 1 .. contexts[c].len /\ CellNext(c, i) = Cell(c, i)
               /\ contexts[c].root = contexts'[c].root
    <3>1. contexts[c].array \in 1 .. Len(arrays) /\ contexts'[c] = contexts[c]
      BY <1>1, <1>2, Shape
    <3> QED
      BY <1>3, <2>1, <3>1 DEF Cell, CellNext
  <2>2. ASSUME NEW i \in 1 .. contexts'[n].len
        PROVE  CellNext(n, i) = n
    <3>1. i = 1
      BY <1>2, <2>2
    <3>2. contexts'[n].array = k /\ arrays'[k] = <<n>>
      BY <1>2, <1>3
    <3>3. CellNext(n, i) = <<n>>[1]
      BY <3>1, <3>2 DEF Cell, CellNext
    <3> QED
      BY <1>4, <3>3
  <2>3. n \in Nat \ {0}
    BY <1>1, <1>5
  <2> QED
    BY <1>2, <1>6, <2>1, <2>2, <2>3, CellStep
<1>10. Extends(0, n)
  <2>1. \A c \in Context : \A i \in 1 .. contexts[c].len : CellNext(c, i) = Cell(c, i)
    <3> SUFFICES ASSUME NEW c \in Context, NEW i \in 1 .. contexts[c].len
                 PROVE  CellNext(c, i) = Cell(c, i)
      OBVIOUS
    <3>1. contexts[c].array \in 1 .. Len(arrays) /\ contexts'[c] = contexts[c]
      BY <1>1, <1>2, Shape
    <3> QED
      BY <1>3, <3>1 DEF Cell, CellNext
  <2>2. \A c \in Context : contexts[c].array # contexts'[n].array
    BY <1>1, <1>2, <1>5, Shape
  <2>3. CellNext(n, contexts'[n].len) = n
    BY <1>2, <1>3, <1>4 DEF CellNext
  <2> QED
    BY <1>2, <1>5, <1>6, <2>1, <2>2, <2>3 DEF Extends
<1> QED
  BY <1>7, <1>8, <1>9, <1>10 DEF IInv, n

(* append writes into the parent's array, where only contexts of the same    *)
(* request can see it.                                                       *)
LEMMA InPlaceInv ==
  ASSUME IInv, Len(contexts) < MaxContexts, NEW parent \in Context,
         contexts[parent].len < Len(arrays[contexts[parent].array]),
         NewContext(parent, contexts[parent].array, contexts[parent].len + 1),
         arrays' = [arrays EXCEPT ![contexts[parent].array][contexts[parent].len + 1] =
                      Len(contexts) + 1]
  PROVE  IInv' /\ Extends(parent, Len(contexts) + 1)
<1> DEFINE n == Len(contexts) + 1
           k == contexts[parent].array
           l == contexts[parent].len + 1
<1>1. /\ TypeOK /\ Len(contexts) \in Nat /\ Len(arrays) \in Nat
      /\ parent \in 1 .. Len(contexts)
      /\ k \in 1 .. Len(arrays) /\ contexts[parent].len \in Nat
      /\ Len(arrays[k]) \in Nat
  BY Shape DEF IInv
<1>n. parent \in 0 .. Len(contexts) /\ parent # 0 /\ k \in Nat /\ l \in Nat
  BY <1>1
<1>a. contexts' \in Seq([parent : Nat, root : Nat, array : Nat, len : Nat])
  BY <1>1, <1>n, NewContextType
<1>2. /\ Len(contexts') = n /\ n <= MaxContexts
      /\ \A c \in Context : contexts'[c] = contexts[c]
      /\ contexts'[n].parent = parent /\ contexts'[n].array = k /\ contexts'[n].len = l
      /\ contexts'[n].root = contexts[parent].root
      /\ contexts'[n].root \in 1 .. n
  BY <1>1, <1>n, NewContextType
<1>5. /\ n \in Nat /\ n = Len(contexts) + 1
      /\ l \in 1 .. Len(arrays[k]) /\ l = contexts[parent].len + 1
  BY <1>1
<1> DEFINE new == [arrays[k] EXCEPT ![l] = n]
<1>b. /\ arrays \in Seq(Seq(Nat)) /\ arrays[k] \in Seq(Nat)
      /\ arrays' = [arrays EXCEPT ![k] = new]
  BY <1>1, Shape DEF TypeOK
<1>d. new \in Seq(Nat) /\ Len(new) = Len(arrays[k])
  <2> HIDE DEF n, k, l
  <2> QED
    BY <1>5, <1>b, SetElement
<1>c. arrays' \in Seq(Seq(Nat)) /\ Len(arrays') = Len(arrays)
  <2> HIDE DEF new, k
  <2>1. k \in 1 .. Len(arrays)
    BY <1>1 DEF k
  <2>2. new \in Seq(Nat) /\ arrays \in Seq(Seq(Nat))
    BY <1>b, <1>d
  <2>3. /\ [arrays EXCEPT ![k] = new] \in Seq(Seq(Nat))
        /\ Len([arrays EXCEPT ![k] = new]) = Len(arrays)
    <3> DEFINE S == Seq(Nat)
    <3>1. new \in S /\ arrays \in Seq(S)
      BY <2>2
    <3> HIDE DEF S
    <3>2. /\ [arrays EXCEPT ![k] = new] \in Seq(S)
          /\ Len([arrays EXCEPT ![k] = new]) = Len(arrays)
      BY <2>1, <3>1, SetElement
    <3> QED
      BY <3>2 DEF S
  <2> QED
    BY <1>b, <2>3
<1>3. /\ Len(arrays') = Len(arrays)
      /\ \A a \in 1 .. Len(arrays) : a # k => arrays'[a] = arrays[a]
      /\ arrays'[k] = new
      /\ Len(arrays'[k]) = Len(arrays[k])
      /\ \A i \in 1 .. Len(arrays[k]) : arrays'[k][i] = IF i = l THEN n ELSE arrays[k][i]
  <2> HIDE DEF n, k, l
  <2>1. \A i \in 1 .. Len(arrays[k]) : new[i] = IF i = l THEN n ELSE arrays[k][i]
    BY <1>b
  <2> HIDE DEF new
  <2>2. arrays'[k] = new /\ \A a \in 1 .. Len(arrays) : a # k => arrays'[a] = arrays[a]
    BY <1>1, <1>b
  <2> QED
    BY <1>c, <1>d, <2>1, <2>2
<1>6. Context' = Context \cup {n}
  BY <1>1, <1>2 DEF Context
<1>4. k = contexts[parent].array
  OBVIOUS
<1> HIDE DEF n, k, l
<1>7. TypeOK'
  <2>1. ASSUME NEW a \in 1 .. Len(arrays)
        PROVE  Len(arrays'[a]) = Len(arrays[a])
    BY <1>3
  <2>2. ASSUME NEW a \in 1 .. Len(arrays), NEW i \in 1 .. Len(arrays'[a])
        PROVE  arrays'[a][i] \in 0 .. n
    <3>1. i \in 1 .. Len(arrays[a])
      BY <2>1
    <3>2. arrays[a][i] \in 0 .. Len(contexts)
      BY <1>1, <3>1, Shape
    <3>3. arrays'[a][i] \in {n, arrays[a][i]}
      BY <1>3, <3>1
    <3> QED
      BY <1>1, <1>5, <3>2, <3>3
  <2>3. /\ contexts'[n].parent \in 0 .. n - 1
        /\ contexts'[n].array \in 1 .. Len(arrays')
        /\ contexts'[n].len \in 1 .. Len(arrays'[contexts'[n].array])
    BY <1>1, <1>2, <1>3, <1>5
  <2>4. Len(arrays') \in Nat /\ Len(arrays) <= Len(arrays')
    BY <1>1, <1>3
  <2> QED
    BY <1>1, <1>2, <1>3, <1>5, <1>6, <1>a, <1>c, <2>1, <2>2, <2>3, <2>4, TypeStep
<1>8. ArrayInv'
  <2>1. \A c \in Context : contexts[c].array = k => contexts[c].root = contexts[parent].root
    BY <1>4 DEF IInv, ArrayInv
  <2> QED
    BY <1>2, <1>6, <2>1, ArrayStep DEF IInv
<1>9. NoMixing'
  <2>1. ASSUME NEW b \in Context, NEW i \in 1 .. contexts[b].len
        PROVE  \/ arrays'[contexts[b].array][i] = n /\ contexts[b].array = k
               \/ arrays'[contexts[b].array][i] = Cell(b, i)
    <3>0. /\ contexts[b].array \in 1 .. Len(arrays)
          /\ contexts[b].len \in 1 .. Len(arrays[contexts[b].array])
      BY <1>1, Shape
    <3>1. /\ contexts[b].array \in 1 .. Len(arrays)
          /\ i \in 1 .. Len(arrays[contexts[b].array])
      BY <1>1, <3>0, Shape
    <3> QED
      BY <1>3, <3>1 DEF Cell, CellNext
  <2>2. ASSUME NEW b \in Context, contexts[b].array = k
        PROVE  contexts[b].root = contexts'[n].root
    BY <1>2, <1>4, <2>2 DEF IInv, ArrayInv
  <2>3. ASSUME NEW c \in Context, NEW i \in 1 .. contexts'[c].len
        PROVE  \/ /\ CellNext(c, i) = n
                  /\ contexts'[n].root = contexts'[c].root
               \/ /\ i \in 1 .. contexts[c].len
                  /\ CellNext(c, i) = Cell(c, i)
                  /\ contexts[c].root = contexts'[c].root
    <3>1. contexts'[c] = contexts[c]
      BY <1>2
    <3> QED
      BY <2>1, <2>2, <2>3, <3>1 DEF Cell, CellNext
  <2>4. ASSUME NEW i \in 1 .. contexts'[n].len
        PROVE  \/ CellNext(n, i) = n
               \/ /\ i \in 1 .. contexts[parent].len
                  /\ CellNext(n, i) = Cell(parent, i)
                  /\ contexts[parent].root = contexts'[n].root
    <3>1. CASE i = l
      BY <1>2, <1>3, <1>5, <3>1 DEF Cell, CellNext
    <3>2. CASE i # l
      <4>1. i \in 1 .. contexts[parent].len
        BY <1>1, <1>2, <1>5, <2>4, <3>2
      <4>2. CellNext(n, i) = arrays'[contexts[parent].array][i]
        BY <1>2, <1>4 DEF Cell, CellNext
      <4> QED
        BY <1>2, <2>1, <4>1, <4>2
    <3> QED
      BY <3>1, <3>2
  <2>5. n \in Nat \ {0}
    BY <1>1, <1>5
  <2> QED
    BY <1>2, <1>6, <2>3, <2>4, <2>5, CellStep
<1>10. Extends(parent, n)
  <2>1. \A c \in Context : \A i \in 1 .. contexts[c].len :
          CellNext(c, i) = Cell(c, i) \/ (contexts[c].array = k /\ i = l)
    <3> SUFFICES ASSUME NEW c \in Context, NEW i \in 1 .. contexts[c].len
                 PROVE  CellNext(c, i) = Cell(c, i) \/ (contexts[c].array = k /\ i = l)
      OBVIOUS
    <3>0. /\ contexts[c].array \in 1 .. Len(arrays)
          /\ contexts[c].len \in 1 .. Len(arrays[contexts[c].array])
      BY <1>1, Shape
    <3>1. contexts'[c] = contexts[c] /\ contexts[c].array \in 1 .. Len(arrays)
      BY <1>2, <3>0
    <3>2. i \in 1 .. Len(arrays[contexts[c].array])
      BY <1>1, <3>0, Shape
    <3> QED
      BY <1>3, <3>1, <3>2 DEF Cell, CellNext
  <2>2. CellNext(n, contexts'[n].len) = n
    BY <1>2, <1>3, <1>5 DEF CellNext
  <2>3. \A i \in 1 .. contexts[parent].len : CellNext(n, i) = Cell(parent, i)
    <3> SUFFICES ASSUME NEW i \in 1 .. contexts[parent].len
                 PROVE  CellNext(n, i) = Cell(parent, i)
      OBVIOUS
    <3>1. i \in 1 .. Len(arrays[k]) /\ i # l
      BY <1>1, <1>5
    <3> QED
      BY <1>2, <1>3, <1>4, <3>1 DEF Cell, CellNext
  <2> QED
    BY <1>2, <1>4, <1>5, <1>6, <1>n, <2>1, <2>2, <2>3 DEF Extends
<1> QED
  BY <1>7, <1>8, <1>9, <1>10 DEF IInv, n

(* append on a full slice copies it into an array of the new context alone.  *)
LEMMA GrowInv ==
  ASSUME IInv, Len(contexts) < MaxContexts, NEW parent \in Context,
         contexts[parent].len = Len(arrays[contexts[parent].array]),
         NewContext(parent, Len(arrays) + 1, contexts[parent].len + 1),
         arrays' = Append(arrays, Grown(arrays[contexts[parent].array], Len(contexts) + 1))
  PROVE  IInv' /\ Extends(parent, Len(contexts) + 1)
<1> DEFINE n == Len(contexts) + 1
           k == Len(arrays) + 1
           l == contexts[parent].len + 1
           old == arrays[contexts[parent].array]
           new == Grown(old, n)
<1>1. /\ TypeOK /\ Len(contexts) \in Nat /\ Len(arrays) \in Nat
      /\ parent \in 1 .. Len(contexts)
      /\ contexts[parent].array \in 1 .. Len(arrays)
      /\ contexts[parent].len \in Nat \ {0} /\ contexts[parent].len = Len(old)
  BY Shape DEF IInv
<1>o. old \in Seq(Nat)
  BY <1>1, Shape
<1>n. parent \in 0 .. Len(contexts) /\ parent # 0 /\ k \in Nat /\ l \in Nat
  BY <1>1
<1>a. contexts' \in Seq([parent : Nat, root : Nat, array : Nat, len : Nat])
  BY <1>1, <1>n, NewContextType
<1>2. /\ Len(contexts') = n /\ n <= MaxContexts
      /\ \A c \in Context : contexts'[c] = contexts[c]
      /\ contexts'[n].parent = parent /\ contexts'[n].array = k /\ contexts'[n].len = l
      /\ contexts'[n].root = contexts[parent].root
      /\ contexts'[n].root \in 1 .. n
  BY <1>1, <1>n, NewContextType
<1>3. /\ n \in Nat /\ n = Len(contexts) + 1 /\ k \in Nat /\ k = Len(arrays) + 1
      /\ l \in Nat /\ l = contexts[parent].len + 1 /\ l = Len(old) + 1
      /\ Len(old) \in Nat \ {0}
  BY <1>1
<1>4. old = arrays[contexts[parent].array] /\ arrays' = Append(arrays, new)
  OBVIOUS
<1>5. Context' = Context \cup {n}
  BY <1>1, <1>2 DEF Context
<1> HIDE DEF n, k, l, old
<1>6. /\ Len(new) = 2 * Len(old)
      /\ \A i \in 1 .. Len(old) : new[i] = old[i]
      /\ new[l] = n
      /\ \A i \in 1 .. Len(new) : i \in 1 .. Len(old) \/ new[i] \in {0, n}
  <2> DEFINE size == 2 * Len(old)
  <2>1. size \in Nat
    BY <1>3
  <2>2. new = [i \in 1 .. size |-> IF i <= Len(old) THEN old[i]
                                   ELSE IF i = Len(old) + 1 THEN n ELSE 0]
    BY DEF Grown
  <2>0. \A i \in 1 .. Len(old) : old[i] \in Nat
    BY <1>o
  <2>3. \A i \in 1 .. size : i <= Len(old) => i \in 1 .. Len(old)
    BY <1>3
  <2>4. \A i \in 1 .. Len(old) : i \in 1 .. size /\ i <= Len(old)
    BY <1>3
  <2>5. l \in 1 .. size /\ ~(l <= Len(old)) /\ l = Len(old) + 1
    BY <1>3
  <2> HIDE DEF size, new
  <2>6. new \in [1 .. size -> Nat]
    BY <1>3, <2>0, <2>2, <2>3
  <2>7. new \in Seq(Nat) /\ Len(new) = size
    BY <2>1, <2>6
  <2> QED
    BY <2>2, <2>3, <2>4, <2>5, <2>7 DEF size
<1>b. new \in Seq(Nat)
  <2> DEFINE size == 2 * Len(old)
  <2>1. \A i \in 1 .. size : i <= Len(old) => old[i] \in Nat
    BY <1>3, <1>o
  <2>2. new \in [1 .. size -> Nat] /\ size \in Nat
    BY <1>3, <2>1 DEF Grown, new
  <2> HIDE DEF size
  <2> QED
    BY <2>2
<1> HIDE DEF new
<1>c. arrays' \in Seq(Seq(Nat))
  BY <1>1, <1>4, <1>b DEF TypeOK
<1>7. /\ Len(arrays') = k
      /\ \A a \in 1 .. Len(arrays) : arrays'[a] = arrays[a]
      /\ arrays'[k] = new
  <2>1. arrays \in Seq(Seq(Nat))
    BY <1>1 DEF TypeOK
  <2> QED
    BY <1>1, <1>3, <1>4, <1>b, <2>1
<1>8. TypeOK'
  <2>1. ASSUME NEW a \in 1 .. Len(arrays), NEW i \in 1 .. Len(arrays'[a])
        PROVE  arrays'[a][i] \in 0 .. n
    <3>1. arrays'[a] = arrays[a] /\ arrays[a][i] \in 0 .. Len(contexts)
      BY <1>1, <1>7, <2>1, Shape
    <3> QED
      BY <1>1, <1>3, <3>1
  <2>2. ASSUME NEW i \in 1 .. Len(arrays'[k])
        PROVE  arrays'[k][i] \in 0 .. n
    <3>1. i \in 1 .. Len(new) /\ arrays'[k][i] = new[i]
      BY <1>7, <2>2
    <3>2. CASE i \in 1 .. Len(old)
      <4>1. new[i] = old[i] /\ old[i] \in 0 .. Len(contexts)
        BY <1>1, <1>4, <1>6, <3>2, Shape
      <4> QED
        BY <1>1, <1>3, <3>1, <4>1
    <3>3. CASE new[i] \in {0, n}
      BY <1>3, <3>1, <3>3
    <3> QED
      BY <1>6, <3>1, <3>2, <3>3
  <2>3. 1 .. Len(arrays') = 1 .. Len(arrays) \cup {k}
    BY <1>1, <1>3, <1>7
  <2>4. \A a \in 1 .. Len(arrays') : \A i \in 1 .. Len(arrays'[a]) : arrays'[a][i] \in 0 .. n
    BY <2>1, <2>2, <2>3
  <2>5. /\ contexts'[n].parent \in 0 .. n - 1
        /\ contexts'[n].array \in 1 .. Len(arrays')
        /\ contexts'[n].len \in 1 .. Len(arrays'[contexts'[n].array])
    <3>1. Len(new) = 2 * Len(old)
      BY <1>6
    <3>2. l \in 1 .. Len(new)
      BY <1>3, <3>1
    <3> QED
      BY <1>1, <1>2, <1>3, <1>7, <3>2
  <2>6. Len(arrays') \in Nat /\ Len(arrays) <= Len(arrays')
    BY <1>1, <1>3, <1>7
  <2>7. \A a \in 1 .. Len(arrays) : Len(arrays'[a]) = Len(arrays[a])
    BY <1>7
  <2> QED
    BY <1>1, <1>2, <1>3, <1>5, <1>7, <1>a, <1>c, <2>4, <2>5, <2>6, <2>7, TypeStep
<1>9. ArrayInv'
  <2>1. \A c \in Context : contexts[c].array # k
    BY <1>1, <1>3, Shape
  <2> QED
    BY <1>2, <1>5, <2>1, ArrayStep DEF IInv
<1>10. NoMixing'
  <2>1. ASSUME NEW c \in Context, NEW i \in 1 .. contexts'[c].len
        PROVE  /\ i \in 1 .. contexts[c].len /\ CellNext(c, i) = Cell(c, i)
               /\ contexts[c].root = contexts'[c].root
    <3>1. contexts[c].array \in 1 .. Len(arrays) /\ contexts'[c] = contexts[c]
      BY <1>1, <1>2, Shape
    <3> QED
      BY <1>7, <2>1, <3>1 DEF Cell, CellNext
  <2>2. ASSUME NEW i \in 1 .. contexts'[n].len
        PROVE  \/ CellNext(n, i) = n
               \/ /\ i \in 1 .. contexts[parent].len
                  /\ CellNext(n, i) = Cell(parent, i)
                  /\ contexts[parent].root = contexts'[n].root
    <3>1. CellNext(n, i) = new[i] /\ i \in 1 .. l
      BY <1>2, <1>7, <2>2 DEF Cell, CellNext
    <3>2. CASE i = l
      BY <1>6, <3>1, <3>2
    <3>3. CASE i # l
      <4>1. i \in 1 .. contexts[parent].len /\ i \in 1 .. Len(old)
        BY <1>1, <1>3, <3>1, <3>3
      <4>2. new[i] = Cell(parent, i)
        BY <1>4, <1>6, <4>1 DEF Cell, CellNext
      <4> QED
        BY <1>2, <3>1, <4>1, <4>2
    <3> QED
      BY <3>2, <3>3
  <2>3. n \in Nat \ {0}
    BY <1>1, <1>3
  <2> QED
    BY <1>2, <1>5, <2>1, <2>2, <2>3, CellStep
<1>11. Extends(parent, n)
  <2>1. \A c \in Context : \A i \in 1 .. contexts[c].len : CellNext(c, i) = Cell(c, i)
    <3> SUFFICES ASSUME NEW c \in Context, NEW i \in 1 .. contexts[c].len
                 PROVE  CellNext(c, i) = Cell(c, i)
      OBVIOUS
    <3>1. contexts[c].array \in 1 .. Len(arrays) /\ contexts'[c] = contexts[c]
      BY <1>1, <1>2, Shape
    <3> QED
      BY <1>7, <3>1 DEF Cell, CellNext
  <2>0. \A c \in Context : contexts[c].array # k
    BY <1>1, <1>3, Shape
  <2>2. \A c \in Context : contexts[c].array # contexts'[n].array
    BY <1>2, <2>0
  <2>3. CellNext(n, contexts'[n].len) = n
    BY <1>2, <1>6, <1>7 DEF CellNext
  <2>4. \A i \in 1 .. contexts[parent].len : CellNext(n, i) = Cell(parent, i)
    <3> SUFFICES ASSUME NEW i \in 1 .. contexts[parent].len
                 PROVE  CellNext(n, i) = Cell(parent, i)
      OBVIOUS
    <3>1. i \in 1 .. Len(old)
      BY <1>1, <1>3
    <3>2. CellNext(n, i) = new[i] /\ Cell(parent, i) = old[i]
      BY <1>2, <1>4, <1>7 DEF Cell, CellNext
    <3> QED
      BY <1>6, <3>1, <3>2
  <2> QED
    BY <1>2, <1>3, <1>5, <1>n, <2>1, <2>2, <2>3, <2>4 DEF Extends
<1> QED
  BY <1>8, <1>9, <1>10, <1>11 DEF IInv, n

-----------------------------------------------------------------------------
(* What a context should log.                                                *)

(* The functions that satisfy the recursion of Added.                        *)
Solves(f) ==
  f = [c \in 0 .. Len(contexts) |->
         IF c = 0 THEN <<>> ELSE Append(f[contexts[c].parent], c)]

OneSolution ==
  /\ \E f : Solves(f)
  /\ \A f, g : Solves(f) /\ Solves(g) => f = g

LEMMA AddedSolves ==
  ASSUME OneSolution
  PROVE  Solves(Added)
BY DEF OneSolution, Solves, Added

(* A solution for the grown tree is one for the tree before it and the path  *)
(* to the new context.                                                       *)
LEMMA SolutionStep ==
  ASSUME TypeOK, OneSolution, NEW parent \in 0 .. Len(contexts), NEW n, Extends(parent, n)
  PROVE  /\ OneSolution'
         /\ \A c \in 0 .. Len(contexts) : Added'[c] = Added[c]
         /\ Added'[n] = Append(Added[parent], n)
<1> DEFINE old == 0 .. Len(contexts)
           restrict(f) == [c \in old |-> f[c]]
<1>1. /\ 0 \in old /\ parent \in old /\ n \notin old /\ n # 0
      /\ 0 .. Len(contexts') = old \cup {n}
      /\ contexts'[n].parent = parent
      /\ \A c \in old : c # 0 => contexts'[c] = contexts[c] /\ contexts[c].parent \in old
  <2>1. Len(contexts) \in Nat /\ n = Len(contexts) + 1 /\ Len(contexts') = n
    BY Shape DEF Extends
  <2>2. ASSUME NEW c \in old, c # 0
        PROVE  contexts'[c] = contexts[c] /\ contexts[c].parent \in old
    <3>1. c \in Context
      BY <2>1, <2>2 DEF Context
    <3>2. contexts[c].parent \in 0 .. c - 1
      BY <3>1, Shape
    <3> QED
      BY <2>1, <3>1, <3>2 DEF Extends
  <2> QED
    BY <2>1, <2>2 DEF Extends
<1>2. ASSUME NEW f, Solves(f)'
      PROVE  /\ Solves(restrict(f))
             /\ f = [c \in old \cup {n} |-> IF c = n THEN Append(f[parent], n) ELSE f[c]]
  <2> HIDE DEF old
  <2>1. f = [c \in old \cup {n} |->
               IF c = 0 THEN <<>> ELSE Append(f[contexts'[c].parent], c)]
    BY <1>1, <1>2 DEF Solves
  <2>2. f[n] = Append(f[parent], n)
    BY <1>1, <2>1
  <2>3. \A c \in old : f[c] = IF c = 0 THEN <<>> ELSE Append(f[contexts[c].parent], c)
    BY <1>1, <2>1
  <2>4. \A c \in old : c # 0 => restrict(f)[contexts[c].parent] = f[contexts[c].parent]
    BY <1>1
  <2>5. restrict(f) = [c \in old |-> IF c = 0 THEN <<>>
                                     ELSE Append(restrict(f)[contexts[c].parent], c)]
    BY <2>3, <2>4
  <2> QED
    BY <2>1, <2>2, <2>5 DEF Solves, old
<1>3. ASSUME NEW f, NEW g, Solves(f)', Solves(g)'
      PROVE  f = g
  <2>1. restrict(f) = restrict(g)
    BY <1>2, <1>3 DEF OneSolution
  <2> HIDE DEF old
  <2>2. \A c \in old : f[c] = g[c]
    BY <2>1
  <2>3. f = [c \in old \cup {n} |-> IF c = n THEN Append(f[parent], n) ELSE f[c]]
    BY <1>2, <1>3
  <2>4. g = [c \in old \cup {n} |-> IF c = n THEN Append(g[parent], n) ELSE g[c]]
    BY <1>2, <1>3
  <2> QED
    BY <1>1, <2>2, <2>3, <2>4
<1>4. \E f : Solves(f)'
  <2>1. PICK f : Solves(f)
    BY DEF OneSolution
  <2> DEFINE g == [c \in old \cup {n} |-> IF c = n THEN Append(f[parent], n) ELSE f[c]]
  <2>2. f = [c \in old |-> IF c = 0 THEN <<>> ELSE Append(f[contexts[c].parent], c)]
    BY <2>1 DEF Solves
  <2> HIDE DEF old
  <2>3. \A c \in old : g[c] = f[c]
    BY <1>1
  <2>4. g[n] = Append(g[parent], n)
    BY <1>1, <2>3
  <2>5. \A c \in old : g[c] = IF c = 0 THEN <<>> ELSE Append(g[contexts'[c].parent], c)
    BY <1>1, <2>2, <2>3
  <2>6. \A c \in old \cup {n} :
          g[c] = IF c = 0 THEN <<>> ELSE Append(g[contexts'[c].parent], c)
    BY <1>1, <2>4, <2>5
  <2>7. g = [c \in old \cup {n} |-> g[c]]
    OBVIOUS
  <2> HIDE DEF g
  <2>8. g = [c \in old \cup {n} |->
               IF c = 0 THEN <<>> ELSE Append(g[contexts'[c].parent], c)]
    BY <2>6, <2>7
  <2> QED
    BY <1>1, <2>8 DEF Solves
<1>5. OneSolution'
  BY <1>3, <1>4 DEF OneSolution
<1>6. Solves(Added)'
  BY <1>5 DEF OneSolution, Solves, Added
<1>7. Solves(Added) /\ Solves(restrict(Added'))
  BY <1>2, <1>6, AddedSolves
<1>8. Added = restrict(Added')
  BY <1>7 DEF OneSolution
<1>9. \A c \in old : Added'[c] = Added[c]
  BY <1>8
<1>10. Added'[n] = Append(Added'[parent], n)
  <2>1. Added' = [c \in old \cup {n} |-> IF c = n THEN Append(Added'[parent], n) ELSE Added'[c]]
    BY <1>2, <1>6
  <2> HIDE DEF old
  <2> QED
    BY <2>1
<1> QED
  BY <1>1, <1>5, <1>9, <1>10

ChainsInv ==
  IInv /\ OneSolution /\ LengthInv /\ SharingInv /\ ChainInv /\ ChainsKeepAttributes

(* What the step leaves of the old paths, and what it adds.                  *)
LEMMA PathStep ==
  ASSUME ChainsInv, NEW parent \in 0 .. Len(contexts), NEW n, Extends(parent, n)
  PROVE  /\ n \in Nat /\ n # 0 /\ n \notin Context /\ Context' = Context \cup {n}
         /\ parent # 0 => parent \in Context
         /\ \A c \in Context : /\ contexts'[c] = contexts[c]
                               /\ Added'[c] = Added[c]
                               /\ contexts[c].len \in Nat \ {0}
         /\ contexts'[n].len = IF parent = 0 THEN 1 ELSE contexts[parent].len + 1
         /\ parent = 0 => Added'[n] = <<n>>
         /\ parent # 0 =>
              /\ Len(Added'[n]) = contexts[parent].len + 1
              /\ Added'[n][contexts[parent].len + 1] = n
              /\ \A i \in 1 .. contexts[parent].len : Added'[n][i] = Added[parent][i]
         /\ Added'[n] \in Seq(Context')
<1>1. TypeOK /\ OneSolution /\ LengthInv
  BY DEF ChainsInv, IInv
<1>2. /\ Len(contexts) \in Nat /\ n = Len(contexts) + 1
      /\ Context = 1 .. Len(contexts) /\ Context' = Context \cup {n}
  BY <1>1, Shape DEF Extends, Context
<1>3. /\ \A c \in Context : Added'[c] = Added[c]
      /\ Added'[n] = Append(Added[parent], n)
  BY <1>1, <1>2, SolutionStep
<1>4. \A c \in Context : contexts'[c] = contexts[c] /\ contexts[c].len \in Nat \ {0}
  <2>1. \A c \in Context : contexts[c].len \in Nat /\ contexts[c].len >= 1
    <3> SUFFICES ASSUME NEW c \in Context
                 PROVE  contexts[c].len \in Nat /\ contexts[c].len >= 1
      OBVIOUS
    <3>1. /\ contexts[c].array \in 1 .. Len(arrays)
          /\ contexts[c].len \in 1 .. Len(arrays[contexts[c].array])
      BY <1>1, Shape
    <3> QED
      BY <1>1, <3>1, Shape
  <2> QED
    BY <2>1 DEF Extends
<1>7. /\ n \in Nat /\ n # 0 /\ n \notin Context
      /\ parent # 0 => parent \in Context
      /\ contexts'[n].len = IF parent = 0 THEN 1 ELSE contexts[parent].len + 1
  BY <1>2 DEF Extends
<1>5. ASSUME parent = 0
      PROVE  Added'[n] = <<n>> /\ Added'[n] \in Seq(Context')
  <2>1. Added[0] = <<>>
    <3>1. Solves(Added)
      BY <1>1, AddedSolves
    <3>2. 0 \in 0 .. Len(contexts)
      BY <1>2
    <3> QED
      BY <3>1, <3>2 DEF Solves
  <2>2. Added'[n] = <<n>>
    BY <1>3, <1>5, <2>1
  <2>3. <<n>> \in Seq(Context')
    BY <1>2
  <2> QED
    BY <2>2, <2>3
<1>6. ASSUME parent # 0
      PROVE  /\ Len(Added'[n]) = contexts[parent].len + 1
             /\ Added'[n][contexts[parent].len + 1] = n
             /\ \A i \in 1 .. contexts[parent].len : Added'[n][i] = Added[parent][i]
             /\ Added'[n] \in Seq(Context')
  <2>1. parent \in Context
    BY <1>2, <1>6
  <2>2. Added[parent] \in Seq(Context) /\ Len(Added[parent]) = contexts[parent].len
    BY <1>1, <2>1 DEF LengthInv
  <2>3. Added[parent] \in Seq(Context')
    BY <1>2, <2>2
  <2>4. n \in Context'
    BY <1>2
  <2> DEFINE path == Added[parent]
             C == Context'
  <2>5. path \in Seq(C) /\ n \in C /\ Added'[n] = Append(path, n) /\ Len(path) = contexts[parent].len
    BY <1>3, <2>2, <2>3, <2>4
  <2>6. contexts[parent].len \in Nat
    BY <1>4, <2>1
  <2> HIDE DEF path, C
  <2>7. /\ Added'[n] \in Seq(C)
        /\ Len(Added'[n]) = contexts[parent].len + 1
        /\ Added'[n][contexts[parent].len + 1] = n
        /\ \A i \in 1 .. contexts[parent].len : Added'[n][i] = path[i]
    BY <2>5, <2>6
  <2> QED
    BY <2>7 DEF path, C
<1> QED
  BY <1>2, <1>3, <1>4, <1>5, <1>6, <1>7

LEMMA LengthStep ==
  ASSUME ChainsInv, NEW parent \in 0 .. Len(contexts), NEW n, Extends(parent, n)
  PROVE  LengthInv'
<1> SUFFICES ASSUME NEW c \in Context'
             PROVE  /\ Added'[c] \in Seq(Context')
                    /\ Len(Added'[c]) = contexts'[c].len
                    /\ Added'[c][contexts'[c].len] = c
  BY DEF LengthInv
<1>1. CASE c \in Context
  <2>1. /\ Added[c] \in Seq(Context)
        /\ Len(Added[c]) = contexts[c].len
        /\ Added[c][contexts[c].len] = c
    BY <1>1 DEF ChainsInv, LengthInv
  <2>2. Added'[c] = Added[c] /\ contexts'[c] = contexts[c] /\ Context' = Context \cup {n}
    BY <1>1, PathStep
  <2>3. Added[c] \in Seq(Context')
    BY <2>1, <2>2
  <2> QED
    BY <2>1, <2>2, <2>3
<1>2. CASE c = n
  <2>0. Added'[n] \in Seq(Context')
    BY PathStep
  <2>1. CASE parent = 0
    <3>1. Added'[n] = <<n>> /\ contexts'[n].len = 1
      BY <2>1, PathStep
    <3>2. Len(<<n>>) = 1 /\ <<n>>[1] = n
      OBVIOUS
    <3> QED
      BY <1>2, <2>0, <3>1, <3>2
  <2>2. CASE parent # 0
    BY <1>2, <2>2, PathStep
  <2> QED
    BY <2>1, <2>2
<1> QED
  BY <1>1, <1>2, PathStep

LEMMA SharingStep ==
  ASSUME ChainsInv, NEW parent \in 0 .. Len(contexts), NEW n, Extends(parent, n)
  PROVE  SharingInv'
<1> DEFINE Continues(d) ==
             LET p == contexts'[d].parent
             IN /\ p \in Context'
                /\ contexts'[p].array = contexts'[d].array
                /\ contexts'[p].len + 1 = contexts'[d].len
<1> SUFFICES ASSUME NEW c \in Context', NEW d \in Context',
                    contexts'[c].array = contexts'[d].array,
                    contexts'[c].len < contexts'[d].len
             PROVE  Continues(d)
  BY DEF SharingInv
<1>1. /\ Context' = Context \cup {n}
      /\ \A b \in Context : contexts'[b] = contexts[b] /\ contexts[b].len \in Nat
      /\ parent # 0 => parent \in Context
      /\ contexts'[n].len = IF parent = 0 THEN 1 ELSE contexts[parent].len + 1
  BY PathStep
<1>2. ASSUME NEW b \in Context, d \in Context,
             contexts[b].array = contexts[d].array, contexts[b].len < contexts[d].len
      PROVE  Continues(d)
  <2>1. /\ contexts[d].parent \in Context
        /\ contexts[contexts[d].parent].array = contexts[d].array
        /\ contexts[contexts[d].parent].len + 1 = contexts[d].len
    BY <1>2 DEF ChainsInv, SharingInv
  <2> QED
    BY <1>1, <1>2, <2>1
<1>3. CASE d \in Context /\ c \in Context
  BY <1>1, <1>2, <1>3
<1>4. CASE d \in Context /\ c = n
  <2>1. parent # 0 /\ contexts[parent].array = contexts'[n].array
    BY <1>1, <1>4 DEF Extends
  <2>2. parent \in Context /\ contexts[parent].len < contexts[d].len
    BY <1>1, <1>4, <2>1
  <2> QED
    BY <1>1, <1>2, <1>4, <2>1, <2>2
<1>5. CASE d = n /\ c \in Context
  <2>1. parent # 0 /\ contexts[parent].array = contexts'[n].array
    BY <1>1, <1>5 DEF Extends
  <2>2. contexts'[n].parent = parent
    BY DEF Extends
  <2> QED
    BY <1>1, <1>5, <2>1, <2>2
<1>6. CASE d = n /\ c = n
  <2>1. contexts'[n].len \in Nat
    BY <1>1
  <2> QED
    BY <1>6, <2>1
<1> QED
  BY <1>1, <1>3, <1>4, <1>5, <1>6

ChildrenNext(x) == {d \in Context' : contexts'[d].parent = x}

(* A chain after the step was one before it, and the step extended none of   *)
(* its contexts but the last.                                                *)
LEMMA ChainStepBack ==
  ASSUME ChainsInv, NEW parent \in 0 .. Len(contexts), NEW n, Extends(parent, n)
  PROVE  /\ \A c \in Context : Chain(c)' =>
              Chain(c) /\ \A i \in 1 .. contexts[c].len - 1 : Added[c][i] # parent
         /\ parent # 0 /\ Chain(n)' => Chain(parent) /\ Children(parent) = {}
<1>1. /\ n \notin Context /\ Context' = Context \cup {n}
      /\ parent # 0 => parent \in Context
      /\ \A c \in Context : /\ contexts'[c] = contexts[c]
                            /\ Added'[c] = Added[c]
                            /\ contexts[c].len \in Nat \ {0}
  BY PathStep
<1>2. contexts'[n].parent = parent
  BY DEF Extends
<1>3. \A x : /\ Children(x) \subseteq ChildrenNext(x)
             /\ ChildrenNext(x) \subseteq Children(x) \cup {n}
             /\ n \in ChildrenNext(x) <=> x = parent
  BY <1>1, <1>2 DEF Children, ChildrenNext
<1>4. \A c \in Context : Added[c] \in Seq(Context) /\ Len(Added[c]) = contexts[c].len
  BY DEF ChainsInv, LengthInv
<1>5. ASSUME NEW c \in Context, NEW i \in 1 .. contexts[c].len - 1,
             ChildrenNext(Added[c][i]) = {Added[c][i + 1]}
      PROVE  Children(Added[c][i]) = {Added[c][i + 1]} /\ Added[c][i] # parent
  <2>1. i + 1 \in 1 .. Len(Added[c])
    BY <1>1, <1>4
  <2>2. Added[c][i + 1] \in Context
    <3> DEFINE path == Added[c]
    <3>1. path \in Seq(Context) /\ i + 1 \in 1 .. Len(path)
      BY <1>4, <2>1
    <3> HIDE DEF path
    <3>2. path[i + 1] \in Context
      BY <3>1
    <3> QED
      BY <3>2 DEF path
  <2>3. Added[c][i + 1] # n
    BY <1>1, <2>2
  <2>4. n \notin ChildrenNext(Added[c][i])
    BY <1>5, <2>3
  <2> QED
    BY <1>3, <1>5, <2>3, <2>4
<1>6. ASSUME NEW c \in Context, Chain(c)'
      PROVE  Chain(c) /\ \A i \in 1 .. contexts[c].len - 1 : Added[c][i] # parent
  <2>1. \A i \in 1 .. contexts[c].len - 1 : ChildrenNext(Added[c][i]) = {Added[c][i + 1]}
    BY <1>1, <1>4, <1>6 DEF Chain, Children, ChildrenNext
  <2> QED
    BY <1>4, <1>5, <2>1 DEF Chain
<1>7. ASSUME parent # 0, Chain(n)'
      PROVE  Chain(parent) /\ Children(parent) = {}
  <2>1. /\ Len(Added'[n]) = contexts[parent].len + 1
        /\ Added'[n][contexts[parent].len + 1] = n
        /\ \A i \in 1 .. contexts[parent].len : Added'[n][i] = Added[parent][i]
    BY <1>7, PathStep
  <2>2. \A i \in 1 .. contexts[parent].len : ChildrenNext(Added'[n][i]) = {Added'[n][i + 1]}
    <3>1. Len(Added'[n]) - 1 = contexts[parent].len
      BY <1>1, <1>7, <2>1
    <3>2. \A i \in 1 .. Len(Added'[n]) - 1 :
            ChildrenNext(Added'[n][i]) = {Added'[n][i + 1]}
      BY <1>7, Zenon DEF Chain, Children, ChildrenNext
    <3> QED
      BY <3>1, <3>2
  <2>3. \A i \in 1 .. contexts[parent].len - 1 :
          ChildrenNext(Added[parent][i]) = {Added[parent][i + 1]}
    <3> SUFFICES ASSUME NEW i \in 1 .. contexts[parent].len - 1
                 PROVE  ChildrenNext(Added[parent][i]) = {Added[parent][i + 1]}
      OBVIOUS
    <3>1. i \in 1 .. contexts[parent].len /\ i + 1 \in 1 .. contexts[parent].len
      BY <1>1, <1>7
    <3> QED
      BY <2>1, <2>2, <3>1
  <2>4. Chain(parent)
    BY <1>1, <1>4, <1>5, <1>7, <2>3 DEF Chain
  <2>5. Added[parent][contexts[parent].len] = parent
    BY <1>1, <1>7 DEF ChainsInv, LengthInv
  <2>6. contexts[parent].len \in 1 .. contexts[parent].len
    BY <1>1, <1>7
  <2>7. ChildrenNext(parent) = {n}
    BY <2>1, <2>2, <2>5, <2>6
  <2>8. n \notin Children(parent)
    BY <1>1 DEF Children
  <2> QED
    BY <1>3, <2>4, <2>7, <2>8
<1> QED
  BY <1>6, <1>7

(* The slice behind which the step writes ends a chain only if it is the     *)
(* chain's own end.                                                          *)
LEMMA ChainStep ==
  ASSUME ChainsInv, NEW parent \in 0 .. Len(contexts), NEW n, Extends(parent, n)
  PROVE  ChainInv'
<1> SUFFICES ASSUME NEW c \in Context', NEW d \in Context', Chain(c)',
                    contexts'[d].array = contexts'[c].array,
                    contexts'[d].len <= contexts'[c].len
             PROVE  d = Added'[c][contexts'[d].len]
  BY DEF ChainInv
<1>1. /\ n \notin Context /\ Context' = Context \cup {n}
      /\ parent # 0 => parent \in Context
      /\ \A b \in Context : /\ contexts'[b] = contexts[b]
                            /\ Added'[b] = Added[b]
                            /\ contexts[b].len \in Nat \ {0}
      /\ contexts'[n].len = IF parent = 0 THEN 1 ELSE contexts[parent].len + 1
  BY PathStep
<1>2. \A b \in Context :
        \/ contexts[b].array # contexts'[n].array
        \/ parent # 0 /\ contexts[parent].array = contexts'[n].array
  BY DEF Extends
<1>3. CASE c \in Context /\ d \in Context
  <2>1. Chain(c)
    BY <1>3, ChainStepBack
  <2> QED
    BY <1>1, <1>3, <2>1 DEF ChainsInv, ChainInv
<1>4. CASE c \in Context /\ d = n
  <2>1. Chain(c) /\ \A i \in 1 .. contexts[c].len - 1 : Added[c][i] # parent
    BY <1>4, ChainStepBack
  <2>2. parent # 0 /\ parent \in Context /\ contexts[parent].array = contexts[c].array
    BY <1>1, <1>2, <1>4
  <2>3. contexts[parent].len \in 1 .. contexts[c].len - 1
    BY <1>1, <1>4, <2>2
  <2>4. parent = Added[c][contexts[parent].len]
    BY <1>1, <1>4, <2>1, <2>2, <2>3 DEF ChainsInv, ChainInv
  <2> QED
    BY <2>1, <2>3, <2>4
<1>5. CASE c = n /\ d \in Context
  <2>1. parent \in Context /\ contexts[parent].array = contexts[d].array /\ parent # 0
    BY <1>1, <1>2, <1>5
  <2>2. Chain(parent) /\ Children(parent) = {}
    BY <1>5, <2>1, ChainStepBack
  <2>3. \A i \in 1 .. contexts[parent].len : Added'[n][i] = Added[parent][i]
    BY <2>1, PathStep
  <2>4. contexts[d].len <= contexts[parent].len + 1 /\ contexts[d].len \in Nat \ {0}
    BY <1>1, <1>5, <2>1
  <2>5. CASE contexts[d].len <= contexts[parent].len
    <3>1. d = Added[parent][contexts[d].len]
      BY <1>5, <2>1, <2>2, <2>5 DEF ChainsInv, ChainInv
    <3>2. contexts[d].len \in 1 .. contexts[parent].len
      BY <1>1, <2>1, <2>4, <2>5
    <3> QED
      BY <1>1, <1>5, <2>3, <3>1, <3>2
  <2>6. CASE contexts[d].len = contexts[parent].len + 1
    <3> DEFINE p == contexts[d].parent
    <3>1. contexts[parent].len < contexts[d].len
      BY <1>1, <2>1, <2>6
    <3>2. /\ p \in Context
          /\ contexts[p].array = contexts[d].array
          /\ contexts[p].len + 1 = contexts[d].len
      BY <1>5, <2>1, <3>1 DEF ChainsInv, SharingInv
    <3> HIDE DEF p
    <3>7. contexts[p].len \in Nat /\ contexts[parent].len \in Nat
      BY <1>1, <2>1, <3>2
    <3>3. contexts[p].len = contexts[parent].len /\ contexts[p].len <= contexts[parent].len
      BY <2>6, <3>2, <3>7
    <3>4. p = Added[parent][contexts[p].len]
      BY <2>1, <2>2, <3>2, <3>3 DEF ChainsInv, ChainInv
    <3>5. parent = Added[parent][contexts[parent].len]
      BY <2>1 DEF ChainsInv, LengthInv
    <3>6. d \in Children(parent)
      BY <1>5, <3>3, <3>4, <3>5 DEF Children, p
    <3> QED
      BY <2>2, <3>6
  <2> QED
    BY <1>1, <2>1, <2>4, <2>5, <2>6
<1>6. CASE c = n /\ d = n
  <2>1. Added'[n][contexts'[n].len] = n
    BY <1>1, LengthStep DEF LengthInv
  <2> QED
    BY <1>6, <2>1
<1> QED
  BY <1>1, <1>3, <1>4, <1>5, <1>6

LEMMA KeepStep ==
  ASSUME ChainsInv, NEW parent \in 0 .. Len(contexts), NEW n, Extends(parent, n)
  PROVE  ChainsKeepAttributes'
<1> SUFFICES ASSUME NEW c \in Context', Chain(c)'
             PROVE  Handle(c)' = Added'[c]
  BY DEF ChainsKeepAttributes
<1>1. /\ n \notin Context /\ Context' = Context \cup {n}
      /\ parent # 0 => parent \in Context
      /\ \A b \in Context : /\ contexts'[b] = contexts[b]
                            /\ Added'[b] = Added[b]
                            /\ contexts[b].len \in Nat \ {0}
      /\ contexts'[n].len = IF parent = 0 THEN 1 ELSE contexts[parent].len + 1
  BY PathStep
<1>2. LengthInv'
  BY LengthStep
<1>3. \A b \in Context : Chain(b) =>
        \A i \in 1 .. contexts[b].len : Cell(b, i) = Added[b][i]
  <2> SUFFICES ASSUME NEW b \in Context, Chain(b), NEW i \in 1 .. contexts[b].len
               PROVE  Cell(b, i) = Added[b][i]
    OBVIOUS
  <2>1. Handle(b) = Added[b]
    BY DEF ChainsInv, ChainsKeepAttributes
  <2>2. Handle(b)[i] = Cell(b, i)
    BY DEF Handle, Cell
  <2> QED
    BY <2>1, <2>2
<1>4. \A i \in 1 .. contexts'[c].len : CellNext(c, i) = Added'[c][i]
  <2> SUFFICES ASSUME NEW i \in 1 .. contexts'[c].len
               PROVE  CellNext(c, i) = Added'[c][i]
    OBVIOUS
  <2>1. CASE c \in Context
    <3>1. Chain(c) /\ \A j \in 1 .. contexts[c].len - 1 : Added[c][j] # parent
      BY <2>1, ChainStepBack
    <3>2. i \in 1 .. contexts[c].len /\ Cell(c, i) = Added[c][i]
      BY <1>1, <1>3, <2>1, <3>1
    <3>3. ASSUME contexts[c].array = contexts'[n].array, i = contexts'[n].len
          PROVE  FALSE
      <4>1. parent # 0 /\ parent \in Context /\ contexts[parent].array = contexts[c].array
        BY <1>1, <2>1, <3>3 DEF Extends
      <4>2. contexts[parent].len \in 1 .. contexts[c].len - 1
        BY <1>1, <2>1, <3>2, <3>3, <4>1
      <4>3. parent = Added[c][contexts[parent].len]
        BY <1>1, <2>1, <3>1, <4>1, <4>2 DEF ChainsInv, ChainInv
      <4> QED
        BY <3>1, <4>2, <4>3
    <3>4. CellNext(c, i) = Cell(c, i)
      BY <2>1, <3>2, <3>3 DEF Extends
    <3> QED
      BY <1>1, <2>1, <3>2, <3>4
  <2>2. CASE c = n /\ parent = 0
    <3>1. i = 1 /\ contexts'[n].len = 1
      BY <1>1, <2>2
    <3>2. CellNext(n, 1) = n
      BY <3>1 DEF Extends
    <3>3. Added'[n][1] = n
      BY <1>1, <1>2, <3>1 DEF LengthInv
    <3> QED
      BY <2>2, <3>1, <3>2, <3>3
  <2>3. CASE c = n /\ parent # 0
    <3>1. Chain(parent) /\ parent \in Context
      BY <1>1, <2>3, ChainStepBack
    <3>2. CASE i = contexts'[n].len
      <4>1. CellNext(n, i) = n
        BY <3>2 DEF Extends
      <4>2. Added'[n][i] = n
        BY <1>1, <1>2, <3>2 DEF LengthInv
      <4> QED
        BY <2>3, <4>1, <4>2
    <3>3. CASE i # contexts'[n].len
      <4>1. i \in 1 .. contexts[parent].len
        BY <1>1, <2>3, <3>1, <3>3
      <4>2. CellNext(n, i) = Cell(parent, i)
        BY <2>3, <4>1 DEF Extends
      <4>3. Added'[n][i] = Added[parent][i]
        BY <2>3, <4>1, PathStep
      <4> QED
        BY <1>3, <2>3, <3>1, <4>1, <4>2, <4>3
    <3> QED
      BY <3>2, <3>3
  <2> QED
    BY <1>1, <2>1, <2>2, <2>3
<1>5. Added'[c] = [i \in 1 .. contexts'[c].len |-> Added'[c][i]]
  <2> DEFINE path == Added'[c]
             C == Context'
             l == contexts'[c].len
  <2>1. path \in Seq(C) /\ Len(path) = l
    BY <1>2 DEF LengthInv
  <2> HIDE DEF path, C, l
  <2>2. path = [i \in 1 .. l |-> path[i]]
    BY <2>1
  <2> QED
    BY <2>2 DEF path, l
<1>6. Handle(c)' = [i \in 1 .. contexts'[c].len |-> CellNext(c, i)]
  BY DEF Handle, CellNext
<1> QED
  BY <1>4, <1>5, <1>6

-----------------------------------------------------------------------------
(* Every step of Next is a call of AppendCtx.                                *)
LEMMA StepExtends ==
  ASSUME IInv, Next
  PROVE  IInv' /\ \E parent \in 0 .. Len(contexts) : Extends(parent, Len(contexts) + 1)
<1>1. Len(contexts) \in Nat /\ Context = 1 .. Len(contexts)
  BY Shape DEF IInv, Context
<1>2. CASE AppendToFresh(Len(contexts) + 1)
  <2>1. IInv' /\ Extends(0, Len(contexts) + 1)
    BY <1>2, FreshInv DEF Next
  <2> QED
    BY <1>1, <2>1
<1>3. ASSUME NEW parent \in Context, AppendToContext(parent, Len(contexts) + 1)
      PROVE  IInv' /\ Extends(parent, Len(contexts) + 1)
  BY <1>3, InPlaceInv, GrowInv DEF Next, AppendToContext
<1>4. \A parent \in Context : parent \in 0 .. Len(contexts)
  BY <1>1
<1> QED
  BY <1>2, <1>3, <1>4 DEF Next

LEMMA Invariance == Spec => []ChainsInv
<1>1. Init => ChainsInv
  <2> SUFFICES ASSUME Init PROVE ChainsInv
    OBVIOUS
  <2>1. Context = {} /\ Len(contexts) = 0
    BY DEF Init, Context
  <2>2. IInv
    BY <2>1, MaxContextsAssumption DEF Init, IInv, TypeOK, NoMixing, ArrayInv, Context
  <2>3. LengthInv /\ SharingInv /\ ChainInv /\ ChainsKeepAttributes
    BY <2>1 DEF LengthInv, SharingInv, ChainInv, ChainsKeepAttributes
  <2>4. 0 .. Len(contexts) = {0}
    BY <2>1
  <2>5. Solves([c \in {0} |-> <<>>])
    BY <2>4 DEF Solves
  <2>6. ASSUME NEW f, Solves(f)
        PROVE  f = [c \in {0} |-> <<>>]
    BY <2>4, <2>6 DEF Solves
  <2>7. OneSolution
    BY <2>5, <2>6 DEF OneSolution
  <2> QED
    BY <2>2, <2>3, <2>7 DEF ChainsInv
<1>2. ChainsInv /\ [Next]_vars => ChainsInv'
  <2> SUFFICES ASSUME ChainsInv, [Next]_vars PROVE ChainsInv'
    OBVIOUS
  <2>1. CASE Next
    <3>1. IInv' /\ \E parent \in 0 .. Len(contexts) : Extends(parent, Len(contexts) + 1)
      BY <2>1, StepExtends DEF ChainsInv
    <3>2. PICK parent \in 0 .. Len(contexts) : Extends(parent, Len(contexts) + 1)
      BY <3>1
    <3>3. OneSolution'
      BY <3>2, SolutionStep DEF ChainsInv, IInv
    <3>4. LengthInv' /\ SharingInv' /\ ChainInv' /\ ChainsKeepAttributes'
      BY <3>2, LengthStep, SharingStep, ChainStep, KeepStep
    <3> QED
      BY <3>1, <3>3, <3>4 DEF ChainsInv
  <2>2. CASE UNCHANGED vars
    <3>1. TypeOK' = TypeOK /\ ArrayInv' = ArrayInv
      BY <2>2 DEF vars, TypeOK, ArrayInv, Context
    <3>2. NoMixing' = NoMixing
      BY <2>2 DEF vars, NoMixing, Context, Handle
    <3>3. Context' = Context /\ contexts' = contexts /\ arrays' = arrays
      BY <2>2 DEF vars, Context
    <3>4. Added' = Added
      BY <3>3 DEF Added
    <3>5. OneSolution' = OneSolution
      BY <3>3 DEF OneSolution, Solves
    <3>6. /\ \A c : Chain(c)' = Chain(c)
          /\ \A c : Handle(c)' = Handle(c)
      BY <3>3, <3>4 DEF Chain, Children, Handle
    <3>7. /\ LengthInv' = LengthInv
          /\ SharingInv' = SharingInv
          /\ ChainInv' = ChainInv
          /\ ChainsKeepAttributes' = ChainsKeepAttributes
      BY <3>3, <3>4, <3>6 DEF LengthInv, SharingInv, ChainInv, ChainsKeepAttributes
    <3> QED
      BY <3>1, <3>2, <3>5, <3>7 DEF ChainsInv, IInv
  <2> QED
    BY <2>1, <2>2
<1> QED
  BY <1>1, <1>2, PTL DEF Spec

(* Contexts, slices and arrays keep their shape: a slice ends within its     *)
(* array and an array holds only attributes that were added.                 *)
THEOREM TypeCorrect == Spec => []TypeOK
<1>1. ChainsInv => TypeOK
  BY DEF ChainsInv, IInv
<1> QED
  BY <1>1, Invariance, PTL

(* A record never carries an attribute of another HTTP request, in whatever  *)
(* order contexts are extended and arrays shared.                            *)
THEOREM NeverMixed == Spec => []NoMixing
<1>1. ChainsInv => NoMixing
  BY DEF ChainsInv, IInv
<1> QED
  BY <1>1, Invariance, PTL

(* As long as no context above it is extended twice, a context logs exactly  *)
(* what AppendCtx added on the way to it, whatever the siblings of others do *)
(* in the arrays they share and however often the slice grows.               *)
THEOREM ChainsAreKept == Spec => []ChainsKeepAttributes
<1>1. ChainsInv => ChainsKeepAttributes
  BY DEF ChainsInv
<1> QED
  BY <1>1, Invariance, PTL
=============================================================================
