----------------------------- MODULE TreeInspector -----------------------------
(***************************************************************************)
(* The knowledge tree page: the node inspected and the permissions being   *)
(* edited are two states of the component, and handlers that awaited an    *)
(* answer set the first from the value they had when they began.           *)
(***************************************************************************)
EXTENDS Naturals, FiniteSets

CONSTANTS
    TreeNodes,    \* the nodes of the page
    NoTreeNode,
    TreeCalls     \* renames, rebuilds and deletions, each once

VARIABLES
    selectedNode,    \* the node inspected
    editAcl,         \* the node whose permissions the editor was filled from
    saving,          \* the save under way
    treeCall,        \* each call: what it does, its node, the node inspected when it began
    rebuilding,      \* rebuildingNodeId
    pendingNode,     \* the node of the address, not yet selected
    strayed,         \* an answer inspected again a node that had been left
    misplaced        \* otherwise, permissions filled from one node were saved to another

inspectorVars == <<selectedNode, editAcl, saving, treeCall, rebuilding, pendingNode, strayed,
                   misplaced>>

ASSUME InspectorAssumption == NoTreeNode \notin TreeNodes

NoTreeCall == [does |-> "none", node |-> NoTreeNode, inspected |-> NoTreeNode]
selection == <<selectedNode, editAcl, strayed>>

SelectNodeOnly(n) == selectedNode' = n /\ UNCHANGED <<editAcl, strayed>>  \* mutant: one of two states
\* selectNode: both states at once.
SelectNode(n) == selectedNode' = n /\ editAcl' = n /\ strayed' = FALSE

PickNode(n) ==  \* a click in the tree, or the begin of a drag
    /\ SelectNode(n)
    /\ UNCHANGED <<saving, treeCall, rebuilding, pendingNode, misplaced>>
ChangeBase ==  \* onKbChange: the permissions stay
    /\ selectedNode' = NoTreeNode
    /\ UNCHANGED <<editAcl, strayed, saving, treeCall, rebuilding, pendingNode, misplaced>>
\* The effect that selects the node of the address once its base is loaded; a
\* node that is not there is forgotten.
SelectPending ==
    /\ pendingNode # NoTreeNode
    /\ pendingNode' = NoTreeNode
    /\ SelectNode(pendingNode) \/ UNCHANGED selection
    /\ UNCHANGED <<saving, treeCall, rebuilding, misplaced>>

BeginCall(c, does, n) ==
    treeCall' = [treeCall EXCEPT ![c] = [does |-> does, node |-> n, inspected |-> selectedNode]]
RenameNode(c, n) ==
    /\ treeCall[c] = NoTreeCall
    /\ BeginCall(c, "rename", n)
    /\ UNCHANGED <<selection, saving, rebuilding, pendingNode, misplaced>>
RebuildNode(c, n) ==
    /\ treeCall[c] = NoTreeCall /\ rebuilding = NoTreeNode
    /\ BeginCall(c, "rebuild", n)
    /\ rebuilding' = n
    /\ UNCHANGED <<selection, saving, pendingNode, misplaced>>
DeleteNode(c) ==  \* asked and confirmed: nothing else is clicked meanwhile
    /\ treeCall[c] = NoTreeCall /\ selectedNode # NoTreeNode
    /\ BeginCall(c, "delete", selectedNode)
    /\ UNCHANGED <<selection, saving, rebuilding, pendingNode, misplaced>>

CallOver(c) == treeCall' = [treeCall EXCEPT ![c] = [NoTreeCall EXCEPT !.does = "over"]]
Released(c) ==
    rebuilding' = IF treeCall[c].does = "rebuild" THEN NoTreeNode ELSE rebuilding
\* The answer to a rename or a rebuild inspects its node again if that was the
\* one inspected when it began; the answer to a deletion inspects none.
NodeCallAnswered(c) ==
    /\ treeCall[c].does \in {"rename", "rebuild", "delete"}
    /\ CallOver(c) /\ Released(c)
    /\ IF treeCall[c].does = "delete" THEN SelectNode(NoTreeNode)
       ELSE IF treeCall[c].inspected = treeCall[c].node
       THEN /\ selectedNode' = treeCall[c].node
            /\ strayed' = (strayed \/ selectedNode # treeCall[c].node)
            /\ UNCHANGED editAcl
       ELSE UNCHANGED selection
    /\ UNCHANGED <<saving, pendingNode, misplaced>>
NodeCallRefused(c) ==
    /\ treeCall[c].does \in {"rename", "rebuild", "delete"}
    /\ CallOver(c) /\ Released(c)
    /\ UNCHANGED <<selection, saving, pendingNode, misplaced>>

\* handleSave: what is edited goes to the node inspected.  Loading the nodes
\* again gives the node inspected a fresh copy and leaves the editor alone.
SaveNode ==
    /\ selectedNode # NoTreeNode /\ ~saving
    /\ saving' = TRUE
    /\ misplaced' = (misplaced \/ (selectedNode # editAcl /\ ~strayed))
    /\ UNCHANGED <<selection, treeCall, rebuilding, pendingNode>>
SaveAnswered ==
    /\ saving /\ saving' = FALSE
    /\ UNCHANGED <<selection, treeCall, rebuilding, pendingNode, misplaced>>

InspectorInit ==
    /\ selectedNode = NoTreeNode /\ editAcl = NoTreeNode /\ saving = FALSE
    /\ treeCall = [c \in TreeCalls |-> NoTreeCall] /\ rebuilding = NoTreeNode
    /\ pendingNode \in TreeNodes \union {NoTreeNode}
    /\ strayed = FALSE /\ misplaced = FALSE

InspectorNext ==
    \/ \E n \in TreeNodes : PickNode(n)
    \/ ChangeBase \/ SelectPending \/ SaveNode \/ SaveAnswered
    \/ \E c \in TreeCalls : \/ \E n \in TreeNodes : RenameNode(c, n) \/ RebuildNode(c, n)
                            \/ DeleteNode(c) \/ NodeCallAnswered(c) \/ NodeCallRefused(c)

InspectorSpec == InspectorInit /\ [][InspectorNext]_inspectorVars

InspectorTypeOK ==
    /\ {selectedNode, editAcl, rebuilding, pendingNode} \subseteq TreeNodes \union {NoTreeNode}
    /\ {saving, strayed, misplaced} \subseteq BOOLEAN
    /\ rebuilding # NoTreeNode <=> \E c \in TreeCalls : treeCall[c].does = "rebuild"
\* Permissions filled from one node are never saved to another one, unless the
\* answer to a rename or a rebuild inspected again a node that had been left.
PermissionsStay == ~misplaced
=============================================================================
