------------------------- MODULE IntermediateSteps -------------------------
(* The tree of the agent's intermediate steps above an answer: a message updates a *)
(* step or adds one under its parent (processIntermediateMessage in                *)
(* utils/app/helper.ts), and generateContentIntermediate shows the tree. The tree  *)
(* is kept in the order both walk it, each entry with its depth.                   *)
EXTENDS Integers, Sequences, FiniteSets, FiniteSetsExt

CONSTANTS
    StepIds, StepNames, NoStep,  \* NoStep: a message without an id, a step without a parent
    ParentId(_),                 \* the parent_id that the messages of a step carry
    MaxMessages                  \* bound: messages of one answer

ASSUME StepConstants ==
    /\ NoStep \notin StepIds /\ MaxMessages \in Nat
    /\ \A id \in StepIds : ParentId(id) \in StepIds \cup {NoStep}

VARIABLES
    tree,         \* intermediateSteps of the message
    overrides,    \* intermediateStepOverride
    stepMessages  \* the messages of the answer so far

stepVars == <<tree, overrides, stepMessages>>

Entries == [id : StepIds, name : StepNames, payload : Nat, index : Nat, depth : Nat]

StepTypeOK == tree \in Seq(Entries) /\ overrides \in BOOLEAN
              /\ stepMessages \in Seq([id : StepIds \cup {NoStep}, name : StepNames])

StepInit == tree = <<>> /\ overrides \in BOOLEAN /\ stepMessages = <<>>

-----------------------------------------------------------------------------

\* What replaceMessage finds, of which it takes the first.
Matching(id, name) == {i \in DOMAIN tree : tree[i].id = id /\ tree[i].name = name}

\* What findParentStep finds, of which it takes the first.
Parents(id) == {i \in DOMAIN tree : tree[i].id = ParentId(id)}

\* Where the steps under entry i end.
EndOf(i) ==
    LET after == {j \in DOMAIN tree : j > i /\ tree[j].depth <= tree[i].depth}
    IN  IF after = {} THEN Len(tree) ELSE Min(after) - 1

Inserted(entry, at) == SubSeq(tree, 1, at) \o <<entry>> \o SubSeq(tree, at + 1, Len(tree))

\* The new message takes the place and the index of the old; the steps under the old
\* one are not in it.
Replaced(i, payload) ==
    SubSeq(tree, 1, i - 1) \o <<[tree[i] EXCEPT !.payload = payload]>>
        \o SubSeq(tree, EndOf(i) + 1, Len(tree))

\* An update of a step, a step under its parent, or one more at the root.
ProcessIntermediateMessage(id, name) ==
    LET n == Len(stepMessages) + 1
        entry(depth) == [id |-> id, name |-> name, payload |-> n, index |-> n, depth |-> depth]
    IN  /\ n <= MaxMessages
        /\ stepMessages' = Append(stepMessages, [id |-> id, name |-> name])
        /\ tree' = IF id = NoStep THEN tree
                   ELSE IF overrides /\ Matching(id, name) # {} THEN Replaced(Min(Matching(id, name)), n)
                   ELSE IF Parents(id) # {}
                        THEN LET p == Min(Parents(id)) IN Inserted(entry(tree[p].depth + 1), EndOf(p))
                   ELSE Append(tree, entry(0))
        /\ UNCHANGED overrides

StepNext == \E id \in StepIds \cup {NoStep}, name \in StepNames : ProcessIntermediateMessage(id, name)

StepSpec == StepInit /\ [][StepNext]_stepVars

-----------------------------------------------------------------------------

\* The entry that entry i is shown under, 0 at the root.
Above(i) == Max({0} \cup {j \in 1 .. i - 1 : tree[j].depth = tree[i].depth - 1})

LastInArray(i) == ~\E j \in DOMAIN tree : j > i /\ Above(j) = Above(i)

\* generateDetails marks what may still stream: a step that is last in its array and
\* under one that is last in its own.
IsLast[i \in 0 .. Len(tree)] == i = 0 \/ (LastInArray(i) /\ IsLast[Above(i)])

\* Messages of a step update one entry, wherever in the tree it is, which shows the
\* last of them; a step is under its parent, and steps beside each other are in the
\* order they were first heard of.
StepTreeIsSound ==
    /\ overrides => \A i, j \in DOMAIN tree :
           i # j => <<tree[i].id, tree[i].name>> # <<tree[j].id, tree[j].name>>
    /\ overrides => \A i \in DOMAIN tree :
           tree[i].payload = Max({n \in DOMAIN stepMessages :
               stepMessages[n] = [id |-> tree[i].id, name |-> tree[i].name]})
    /\ \A i \in DOMAIN tree : Above(i) # 0 => tree[Above(i)].id = ParentId(tree[i].id)
    /\ \A i, j \in DOMAIN tree : i < j /\ Above(i) = Above(j) => tree[i].index < tree[j].index
    /\ \A i, j \in DOMAIN tree : i < j /\ IsLast[i] /\ IsLast[j] => Above(j) >= i
    /\ tree # <<>> => IsLast[Len(tree)]
=============================================================================
