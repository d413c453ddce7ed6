------------------------------ MODULE AstLists ------------------------------
(***************************************************************************)
(* What the temporary list of the parser promises: lists that are open at  *)
(* the same time are nested, a node goes to the innermost one, and closing *)
(* that one gives exactly the nodes that were put into it, in order.       *)
(***************************************************************************)
EXTENDS Sequences, SequencesExt, Naturals

CONSTANT Nodes                  \* what the lists are made of

VARIABLES
    open,                       \* the open lists, the innermost one last
    closed                      \* the list closed last

listVars == <<open, closed>>

Init == open = <<>> /\ closed = <<>>

\* ebi_begin_ast_list
Open == open' = Append(open, <<>>) /\ UNCHANGED closed

\* ebi_push_ast_list
Add(node) ==
    /\ open # <<>>
    /\ open' = [open EXCEPT ![Len(open)] = Append(@, node)]
    /\ UNCHANGED closed

\* ebi_end_ast_list
Close ==
    /\ open # <<>>
    /\ closed' = Last(open)
    /\ open' = Front(open)

Next == Open \/ (\E node \in Nodes : Add(node)) \/ Close

Spec == Init /\ [][Next]_listVars
=============================================================================
