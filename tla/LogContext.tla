----------------------------- MODULE LogContext -----------------------------
(* pkg/log: contexts that carry log attributes in a Go slice.  AppendCtx     *)
(* appends to the slice of its parent context, so two contexts can share a   *)
(* backing array; contextHandler.Handle adds the attributes of a context to  *)
(* each record.  RequestIDMiddleware calls AppendCtx on the context of each  *)
(* HTTP request; what runs below it can call AppendCtx again.                *)
(*                                                                           *)
(* Contexts are numbered as they are made, and the attribute added by the    *)
(* call that makes context n is n.                                           *)
EXTENDS Naturals, Sequences

CONSTANT MaxContexts    \* bound on the calls of AppendCtx

VARIABLES
  contexts,  \* of each context: its parent (0: none with attributes), the
             \* first context of its branch (the HTTP request's), its slice
  arrays     \* backing arrays; 0 is a cell not yet written

vars == <<contexts, arrays>>

Context == 1 .. Len(contexts)

ASSUME MaxContextsAssumption == MaxContexts \in Nat

TypeOK ==
  /\ contexts \in Seq([parent : Nat, root : Nat, array : Nat, len : Nat])
  /\ arrays \in Seq(Seq(Nat))
  /\ Len(contexts) <= MaxContexts
  /\ \A c \in Context :
       /\ contexts[c].parent \in 0 .. c - 1
       /\ contexts[c].root \in 1 .. c
       /\ contexts[c].array \in 1 .. Len(arrays)
       /\ contexts[c].len \in 1 .. Len(arrays[contexts[c].array])
  /\ \A a \in 1 .. Len(arrays) : \A i \in 1 .. Len(arrays[a]) : arrays[a][i] \in 0 .. Len(contexts)

Init == contexts = <<>> /\ arrays = <<>>

-----------------------------------------------------------------------------
NewContext(parent, array, len) ==
  contexts' = Append(contexts,
    [parent |-> parent, array |-> array, len |-> len,
     root |-> IF parent = 0 THEN Len(contexts) + 1 ELSE contexts[parent].root])

(* append on a full slice of n attributes: a new array of capacity 2 * n.    *)
Grown(cells, attr) ==
  [i \in 1 .. 2 * Len(cells) |->
     IF i <= Len(cells) THEN cells[i] ELSE IF i = Len(cells) + 1 THEN attr ELSE 0]

(* Mutant: the first attribute goes to a slice kept in a package variable.   *)
AppendToFreshShared(attr) ==
  /\ NewContext(0, 1, 1)
  /\ arrays' = IF arrays = <<>> THEN <<<<attr>>>> ELSE [arrays EXCEPT ![1][1] = attr]

(* Mutant: the result of append is dropped.                                  *)
AppendToFreshDropped(attr) ==
  /\ NewContext(0, Len(arrays) + 1, 1)
  /\ UNCHANGED arrays

(* AppendCtx on a context without attributes: a slice of its own.            *)
AppendToFresh(attr) ==
  /\ NewContext(0, Len(arrays) + 1, 1)
  /\ arrays' = Append(arrays, <<attr>>)

(* Mutant: the attribute overwrites the last one of the parent.              *)
AppendToContextInPlace(parent, attr) ==
  LET s == contexts[parent] IN
  /\ NewContext(parent, s.array, s.len)
  /\ arrays' = [arrays EXCEPT ![s.array][s.len] = attr]

(* AppendCtx on a context that has attributes: append(v, attr).              *)
AppendToContext(parent, attr) ==
  LET s == contexts[parent]
      cells == arrays[s.array]
  IN \/ /\ s.len < Len(cells)
        /\ NewContext(parent, s.array, s.len + 1)
        /\ arrays' = [arrays EXCEPT ![s.array][s.len + 1] = attr]
     \/ /\ s.len = Len(cells)
        /\ NewContext(parent, Len(arrays) + 1, s.len + 1)
        /\ arrays' = Append(arrays, Grown(cells, attr))

Next ==
  /\ Len(contexts) < MaxContexts
  /\ LET attr == Len(contexts) + 1
     IN AppendToFresh(attr) \/ \E parent \in Context : AppendToContext(parent, attr)

Spec == Init /\ [][Next]_vars

-----------------------------------------------------------------------------
(* contextHandler.Handle: the attributes a record made with context c gets.  *)
Handle(c) == [i \in 1 .. contexts[c].len |-> arrays[contexts[c].array][i]]

(* The attributes it should get: those of its ancestors and its own.         *)
Added ==
  LET path[c \in 0 .. Len(contexts)] ==
        IF c = 0 THEN <<>> ELSE Append(path[contexts[c].parent], c)
  IN path

Children(c) == {d \in Context : contexts[d].parent = c}

-----------------------------------------------------------------------------
(* Properties.                                                               *)

(* The log lines of one HTTP request never carry attributes, such as the     *)
(* request id, of another one: contexts below different requests share       *)
(* nothing.                                                                  *)
NoMixing ==
  \A c \in Context : \A i \in 1 .. contexts[c].len :
    Handle(c)[i] # 0 /\ contexts[Handle(c)[i]].root = contexts[c].root

(* What makes it inductive: a backing array stays within one request.        *)
ArrayInv ==
  \A c, d \in Context :
    contexts[c].array = contexts[d].array => contexts[c].root = contexts[d].root

IInv == TypeOK /\ NoMixing /\ ArrayInv

(* No context above c was extended twice.                                    *)
Chain(c) == \A i \in 1 .. Len(Added[c]) - 1 : Children(Added[c][i]) = {Added[c][i + 1]}

(* As long as no context between the request and c was extended twice, c     *)
(* logs exactly what was added to it, through every growth of the slice.     *)
ChainsKeepAttributes == \A c \in Context : Chain(c) => Handle(c) = Added[c]

(* What makes it inductive: a slice is as long as the chain; a slice that is *)
(* not the shortest of its array continues the one of its parent; and the    *)
(* slices in the array of a chain's end that are no longer belong to it, so  *)
(* that a write behind one of them is a second extension.                    *)
LengthInv ==
  \A c \in Context :
    /\ Added[c] \in Seq(Context)
    /\ Len(Added[c]) = contexts[c].len
    /\ Added[c][contexts[c].len] = c

SharingInv ==
  \A c, d \in Context :
    contexts[c].array = contexts[d].array /\ contexts[c].len < contexts[d].len =>
      LET p == contexts[d].parent
      IN /\ p \in Context
         /\ contexts[p].array = contexts[d].array
         /\ contexts[p].len + 1 = contexts[d].len

ChainInv ==
  \A c, d \in Context :
    Chain(c) /\ contexts[d].array = contexts[c].array /\ contexts[d].len <= contexts[c].len =>
      d = Added[c][contexts[d].len]

(* pkg/log/log.go:45: AppendCtx "adds an slog attribute to the provided      *)
(* context so that it will be included in any Record created with such       *)
(* context".                                                                 *)
AttributesIncluded == \A c \in Context : Handle(c) = Added[c]
=============================================================================
