----------------------------- MODULE TicketTree -----------------------------
(***************************************************************************)
(* The parent links between tickets.  Agents link and unlink children,     *)
(* raise problems for incidents and merge tickets, which moves the         *)
(* children of the merged ones; every one of these handlers reads first    *)
(* and writes some awaits later, by id.                                    *)
(*                                                                         *)
(* Left out: permissions, history rows, and what else a merge does to a    *)
(* row (Tickets has that).                                                 *)
(***************************************************************************)
EXTENDS Naturals, FiniteSets

CONSTANTS
  TreeTickets,  \* rows of the tickets table, created or not
  NoParent,     \* a null parentId
  NewKinds,     \* ticket types that are created directly
  Linkers       \* handlers that may be at work at one time

ASSUME TreeAssumption ==
  /\ NoParent \notin TreeTickets
  /\ NewKinds \subseteq {"incident", "problem", "change", "task"}

VARIABLES
  node,  \* node[t]: the columns of ticket t that the hierarchy uses
  link   \* link[r]: what handler r has read and has still to write

treeVars == <<node, link>>

Node == [kind : {"unborn", "incident", "problem", "change", "task"},
         parent : TreeTickets \cup {NoParent}, deleted : BOOLEAN, merged : BOOLEAN]

Unborn == [kind |-> "unborn", parent |-> NoParent, deleted |-> FALSE, merged |-> FALSE]

(* op "climb" walks up from `parent`; "raise" and "adopt" are the two writes
   of a promotion; "write" sets the parent of `child`. *)
NoLink == [op |-> "idle", parent |-> NoParent, child |-> NoParent,
           cursor |-> NoParent, seen |-> {}, sources |-> {}, kids |-> {}]

(***************************************************************************)
(* Helpers                                                                 *)
(***************************************************************************)
Live(t) == node[t].kind # "unborn" /\ ~node[t].deleted

WithParent(t, p) == node' = [node EXCEPT ![t].parent = p]

(* Handlers that need one step use a slot as well. *)
SlotFree == \E r \in Linkers : link[r] = NoLink

EndLink(r) == link' = [link EXCEPT ![r] = NoLink]

CreateUnderAny(t, kind, p) ==   \* wrong variant: the parent is not looked up
  /\ SlotFree
  /\ node[t].kind = "unborn" /\ p # t
  /\ node' = [node EXCEPT ![t] = [Unborn EXCEPT !.kind = kind, !.parent = p]]
  /\ UNCHANGED link

(***************************************************************************)
(* Creation and deletion                                                   *)
(***************************************************************************)
CreateUnder(t, kind, p) ==
  /\ SlotFree
  /\ node[t].kind = "unborn"
  /\ p # NoParent => Live(p)
  /\ node' = [node EXCEPT ![t] = [Unborn EXCEPT !.kind = kind, !.parent = p]]
  /\ UNCHANGED link

Discard(t) ==
  /\ SlotFree
  /\ Live(t)
  /\ node' = [node EXCEPT ![t].deleted = TRUE]
  /\ UNCHANGED link

(***************************************************************************)
(* linkChild and unlinkChild                                               *)
(***************************************************************************)
BeginLink(r, p, c) ==
  /\ link[r] = NoLink
  /\ Live(p) /\ Live(c) /\ p # c
  /\ node[c].parent # p
  /\ link' = [link EXCEPT ![r] = [NoLink EXCEPT
       !.op = "climb", !.parent = p, !.child = c, !.cursor = node[p].parent, !.seen = {p}]]
  /\ UNCHANGED node

WalkIsOver(r) == FALSE   \* wrong variant: only the parent of the parent is compared

WalkGoesOn(r) == link[r].cursor # NoParent /\ link[r].cursor \notin link[r].seen

(* One turn of the walk: a row that is not the child is passed. *)
Climb(r) ==
  /\ link[r].op = "climb" /\ WalkGoesOn(r)
  /\ link[r].cursor # link[r].child
  /\ link' = [link EXCEPT ![r].seen = @ \cup {link[r].cursor},
                          ![r].cursor = node[link[r].cursor].parent]
  /\ UNCHANGED node

RefuseCycle(r) ==
  /\ link[r].op = "climb"
  /\ link[r].cursor = link[r].child
  /\ EndLink(r)
  /\ UNCHANGED node

EndClimb(r) ==
  /\ link[r].op = "climb" /\ ~WalkGoesOn(r)
  /\ link[r].cursor # link[r].child
  /\ link' = [link EXCEPT ![r].op = "write"]
  /\ UNCHANGED node

WriteParent(r) ==
  /\ link[r].op = "write"
  /\ WithParent(link[r].child, link[r].parent)
  /\ EndLink(r)

BeginUnlink(r, c) ==
  /\ link[r] = NoLink
  /\ Live(c)
  /\ node[c].parent \in TreeTickets /\ Live(node[c].parent)
  /\ link' = [link EXCEPT ![r] = [NoLink EXCEPT !.op = "write", !.child = c]]
  /\ UNCHANGED node

(***************************************************************************)
(* promoteToProblem                                                        *)
(***************************************************************************)
HasProblem(t) ==
  /\ node[t].parent \in TreeTickets
  /\ Live(node[t].parent) /\ node[node[t].parent].kind = "problem"

BeginPromote(r, t) ==
  /\ link[r] = NoLink
  /\ Live(t) /\ node[t].kind = "incident"
  /\ ~HasProblem(t)
  /\ link' = [link EXCEPT ![r] = [NoLink EXCEPT !.op = "raise", !.child = t]]
  /\ UNCHANGED node

RaiseParent(r, q) ==
  /\ link[r].op = "raise"
  /\ node[q].kind = "unborn"
  /\ node' = [node EXCEPT ![q] = [Unborn EXCEPT !.kind = "problem"]]
  /\ link' = [link EXCEPT ![r].op = "write", ![r].parent = q]

(***************************************************************************)
(* merge                                                                   *)
(***************************************************************************)
BeginFold(r, p, ss) ==
  /\ link[r] = NoLink
  /\ Live(p) /\ ~node[p].merged
  /\ p \notin ss /\ \A s \in ss : Live(s) /\ ~node[s].merged
  /\ link' = [link EXCEPT ![r] = [NoLink EXCEPT
       !.op = "fold", !.parent = p, !.sources = ss,
       !.kids = {k \in TreeTickets \X ss : Live(k[1]) /\ node[k[1]].parent = k[2]}]]
  /\ UNCHANGED node

(* The sources are handled in the order the query returned them: one that is
   a child of a later one loses its parent first and gets the primary then. *)
FoldedParent(r, turn, t) ==
  LET l == link[r]
      of == {s \in l.sources : <<t, s>> \in l.kids}
  IN  IF t \notin l.sources
      THEN IF of = {} THEN node[t].parent ELSE l.parent
      ELSE IF \E s \in of : turn[s] > turn[t] THEN l.parent ELSE NoParent

Fold(r) ==
  /\ link[r].op = "fold"
  /\ \E turn \in [link[r].sources -> 1..Cardinality(link[r].sources)] :
       /\ \A s, u \in link[r].sources : turn[s] = turn[u] => s = u
       /\ node' = [t \in TreeTickets |-> [node[t] EXCEPT
            !.parent = FoldedParent(r, turn, t),
            !.merged = @ \/ t \in link[r].sources]]
  /\ EndLink(r)

(* The process restarts: what the handlers had read is lost. *)
TreeCrash ==
  /\ \E r \in Linkers : link[r] # NoLink
  /\ link' = [r \in Linkers |-> NoLink]
  /\ UNCHANGED node

(***************************************************************************)
(* The specification                                                       *)
(***************************************************************************)
TreeInit ==
  /\ node = [t \in TreeTickets |-> Unborn]
  /\ link = [r \in Linkers |-> NoLink]

TreeNext ==
  \/ \E t \in TreeTickets, kind \in NewKinds, p \in TreeTickets \cup {NoParent} :
       CreateUnder(t, kind, p)
  \/ \E t \in TreeTickets : Discard(t)
  \/ \E r \in Linkers :
       \/ \E p, c \in TreeTickets : BeginLink(r, p, c)
       \/ Climb(r) \/ RefuseCycle(r) \/ EndClimb(r) \/ WriteParent(r)
       \/ \E c \in TreeTickets : BeginUnlink(r, c) \/ BeginPromote(r, c) \/ RaiseParent(r, c)
       \/ \E p \in TreeTickets, ss \in SUBSET TreeTickets \ {{}} : BeginFold(r, p, ss)
       \/ Fold(r)
  \/ TreeCrash

TreeSpec == TreeInit /\ [][TreeNext]_treeVars

(***************************************************************************)
(* Properties                                                              *)
(***************************************************************************)
\* Rows and handlers have their shape; a parent is a row that was created,
\* and a handler that is about to write has found the rows it writes.
TreeTypeOK ==
  /\ node \in [TreeTickets -> Node]
  /\ \A t \in TreeTickets :
       /\ node[t].kind = "unborn" => node[t] = Unborn
       /\ node[t].parent # NoParent => node[node[t].parent].kind # "unborn"
  /\ link \in [Linkers ->
       [op : {"idle", "climb", "write", "raise", "fold"},
        parent : TreeTickets \cup {NoParent}, child : TreeTickets \cup {NoParent},
        cursor : TreeTickets \cup {NoParent}, seen : SUBSET TreeTickets,
        sources : SUBSET TreeTickets, kids : SUBSET (TreeTickets \X TreeTickets)]]
  /\ \A r \in Linkers :
       /\ link[r].op \in {"climb", "write", "raise"} =>
            link[r].child \in TreeTickets /\ node[link[r].child].kind # "unborn"
       /\ link[r].op \in {"climb", "fold"} => link[r].parent \in TreeTickets
       /\ \A t \in {link[r].parent, link[r].cursor} \cup link[r].seen :
            t # NoParent => node[t].kind # "unborn"
       /\ link[r].op = "fold" => \A s \in link[r].sources : node[s].kind # "unborn"

(* No set of tickets is closed under taking parents: nobody is below itself. *)
Forest == \A ts \in SUBSET TreeTickets \ {{}} : \E t \in ts : node[t].parent \notin ts

(* The tickets above p, itself included: they are in every set that holds p
   and the parents of its members. *)
Lineages(p) == {ts \in SUBSET TreeTickets :
                  p \in ts /\ \A t \in ts : node[t].parent \in ts \cup {NoParent}}

(* Handler r is about to merge a ticket into one below it. *)
FoldsDownward(r) ==
  link[r].op = "fold" /\ \A ts \in Lineages(link[r].parent) : ts \cap link[r].sources # {}

\* Linking, promoting and creating tickets never close a cycle.  Only a merge
\* of a ticket into one below it does: linkChild checks for cycles, merge does
\* not.
CyclesComeFromMerging ==
  [][Forest => Forest' \/ \E r \in Linkers : FoldsDownward(r) /\ link'[r].op = "idle"]_treeVars
=============================================================================
