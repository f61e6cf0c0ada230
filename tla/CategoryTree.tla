----------------------------- MODULE CategoryTree -----------------------------
(***************************************************************************)
(* The category tree and what hangs on it: nodes of kind topic or concept, *)
(* edges of which a node has at most one as a child, series attached to    *)
(* concepts, and three kinds of writer: the CRUD routes, whose requests    *)
(* read, check and commit; POST and PATCH of a series (and the             *)
(* registration of a proposed one), which check the node before they       *)
(* write; and bootstraps, which look up or mint the concept of one curated *)
(* series after the other in one long transaction.                         *)
(*                                                                         *)
(* A node or series is identified with its code; a row that is deleted     *)
(* takes with it what others were about to do with its id.  Statements     *)
(* read committed, but a row that a bootstrap's session holds stays as it  *)
(* was loaded; a row that an open transaction has inserted under a unique  *)
(* code, or refers to by a foreign key, makes others wait.                 *)
(***************************************************************************)
EXTENDS Naturals, Sequences, FiniteSets

CONSTANTS Nodes, Series, NoNode,
          Seeds,         \* the taxonomy skeleton: [node, kind, parent] each
          Specs,         \* RAW_SERIES_SPECS: [concept, parent, series] each
          Bootstraps, Requests,
          MaxWrites      \* bound: route calls and seed runs

NoSeries == "no_series"

\* The parent of a seed is a seed, and there are specs.
ASSUME TreeAssumption ==
  /\ NoNode \notin Nodes /\ NoSeries \notin Nodes
  /\ Seeds \subseteq [node : Nodes, kind : {"topic", "concept"}, parent : Nodes \cup {NoNode}]
  /\ \A s \in Seeds : s.parent # NoNode => \E p \in Seeds : p.node = s.parent
  /\ Specs \in Seq([concept : Nodes, parent : Nodes, series : Series]) /\ Len(Specs) > 0
  /\ MaxWrites \in Nat

\* No series has two specs.
ASSUME SpecsAssumption ==
  \A i, j \in 1..Len(Specs) : Specs[i].series = Specs[j].series => i = j

VARIABLES kind,    \* categories.kind, or whether the row is not there
          up,      \* category_edges: the parent of each child
          cat,     \* series.category_id of each series, if it exists
          req,     \* route calls between their reads and their commit
          boot,    \* bootstraps and what they have flushed
          held,    \* rows in the sessions of bootstraps, as they were loaded
          demoted, \* history: nodes turned from concept to topic
          writes   \* route calls and seed runs so far

treeVars == <<kind, up, cat, req, boot, held, demoted, writes>>

Kinds == {"topic", "concept"}
Idle == [op |-> "idle"]

Pcs == {"idle", "concept", "mint", "series", "insert", "update", "commit",
        "failing", "done"}

\* Rows flushed by a transaction, over what is committed; and one row more.
Overlay(own, committed) ==
  [k \in DOMAIN own \cup DOMAIN committed |-> IF k \in DOMAIN own THEN own[k] ELSE committed[k]]
With(own, key, value) ==
  [k \in DOMAIN own \cup {key} |-> IF k = key THEN value ELSE own[k]]

\* A bootstrap: its program counter, the spec it is at, and the nodes (with
\* their parents) and attachments it has flushed and not committed.
Fresh == [pc |-> "idle", i |-> 1, minted |-> << >>, attached |-> << >>]

Unheld == [kind |-> [n \in Nodes |-> "absent"], cat |-> [s \in Series |-> NoSeries]]

\* The taxonomy upserted over what there is; roots come without an edge.
SeedKinds(kinds) ==
  [n \in Nodes |-> IF \E s \in Seeds : s.node = n
                   THEN (CHOOSE s \in Seeds : s.node = n).kind ELSE kinds[n]]
SeedEdges(edges) ==
  [n \in Nodes |-> IF \E s \in Seeds : s.node = n /\ s.parent # NoNode
                   THEN (CHOOSE s \in Seeds : s.node = n).parent ELSE edges[n]]

TreeInit ==
  /\ kind = SeedKinds([n \in Nodes |-> "absent"])
  /\ up = SeedEdges([n \in Nodes |-> NoNode])
  /\ cat = [s \in Series |-> NoSeries]
  /\ req = [r \in Requests |-> Idle]
  /\ boot = [b \in Bootstraps |-> Fresh] /\ held = [b \in Bootstraps |-> Unheld]
  /\ demoted = {} /\ writes = 0
-------------------------------------------------------------------------------
(* What the constraints of the database say *)

Exists(n) == kind[n] \in Kinds
Attached(n) == \E s \in Series : cat[s] = n
IsParent(n) == \E c \in Nodes : up[c] = n

\* Rows flushed by open transactions make the writer of the same unique code
\* wait, and the rows they refer to cannot be deleted until they end.
MintedBy(b, n) == n \in DOMAIN boot[b].minted
AttachedBy(b, s) == s \in DOMAIN boot[b].attached
NodeFree(n) == \A b \in Bootstraps : ~MintedBy(b, n)
SeriesFree(s) == \A b \in Bootstraps : ~AttachedBy(b, s)
Referred(n) == \E b \in Bootstraps :
  \/ \E m \in DOMAIN boot[b].minted : boot[b].minted[m] = n
  \/ \E s \in DOMAIN boot[b].attached : boot[b].attached[s] = n

\* ON DELETE RESTRICT of category_edges.parent_category_id and series.category_id.
Restricted(n) == IsParent(n) \/ Attached(n)

\* The spec a bootstrap is at, and the row it has read and will refer to.
Spec(b) == Specs[boot[b].i]
Needs(b, n) ==
  \/ boot[b].pc = "mint" /\ Spec(b).parent = n
  \/ boot[b].pc \in {"series", "insert", "update"} /\ Spec(b).concept = n
       /\ ~MintedBy(b, n)
-------------------------------------------------------------------------------
(* The CRUD routes of categories and category edges, and the seed *)

Route == writes < MaxWrites /\ writes' = writes + 1

\* macrodb seed, again: kinds and parents are set back, in one transaction.
SeedCategories ==
  /\ Route /\ \A n \in Nodes : SeedKinds(kind)[n] # kind[n] => NodeFree(n)
  /\ kind' = SeedKinds(kind) /\ up' = SeedEdges(up)
  /\ demoted' = demoted \cup {n \in Nodes : kind[n] = "concept" /\ kind'[n] = "topic"}
  /\ UNCHANGED <<cat, req, boot, held>>

PostCategory(n, k) ==
  /\ Route /\ kind[n] = "absent" /\ NodeFree(n)
  /\ kind' = [kind EXCEPT ![n] = k]
  /\ UNCHANGED <<up, cat, req, boot, held, demoted>>

PatchKind(n, k) ==
  /\ Route /\ Exists(n) /\ kind[n] # k
  /\ kind' = [kind EXCEPT ![n] = k]
  /\ demoted' = IF k = "topic" THEN demoted \cup {n} ELSE demoted
  /\ UNCHANGED <<up, cat, req, boot, held>>

PostEdge(p, c) ==
  /\ Route /\ p # c /\ Exists(p) /\ Exists(c) /\ up[c] = NoNode
  /\ up' = [up EXCEPT ![c] = p]
  /\ UNCHANGED <<kind, cat, req, boot, held, demoted>>

\* Either end of an edge may be changed.
PatchEdge(c, p, d) ==
  /\ Route /\ up[c] # NoNode /\ p # d /\ Exists(p) /\ Exists(d)
  /\ <<p, d>> # <<up[c], c>>
  /\ d = c \/ up[d] = NoNode
  /\ up' = [up EXCEPT ![c] = NoNode, ![d] = p]
  /\ UNCHANGED <<kind, cat, req, boot, held, demoted>>

DeleteEdge(c) ==
  /\ Route /\ up[c] # NoNode
  /\ up' = [up EXCEPT ![c] = NoNode]
  /\ UNCHANGED <<kind, cat, req, boot, held, demoted>>

\* The row is fetched with its edges.  The session nulls the foreign keys of
\* those it has loaded, which no edge allows, so the request is a conflict as
\* soon as there is one; ON DELETE decides about what was added since.
FetchToDelete(r, n) ==
  /\ Route /\ req[r] = Idle /\ Exists(n)
  /\ up[n] = NoNode /\ ~IsParent(n)
  /\ req' = [req EXCEPT ![r] = [op |-> "delete", node |-> n]]
  /\ UNCHANGED <<kind, up, cat, boot, held, demoted>>

\* Requests about the row that is gone will fail, and so will a bootstrap that
\* is about to refer to it.
RowGone(n) ==
  /\ kind' = [kind EXCEPT ![n] = "absent"]
  /\ demoted' = demoted \ {n}
  /\ req' = [r \in Requests |->
               IF req[r] # Idle /\ req[r].node = n THEN Idle ELSE req[r]]
  /\ boot' = [b \in Bootstraps |->
               IF Needs(b, n) THEN [boot[b] EXCEPT !.pc = "failing"] ELSE boot[b]]
  /\ held' = [b \in Bootstraps |->
               [kind |-> [held[b].kind EXCEPT ![n] = "absent"],
                cat |-> [s \in Series |-> IF held[b].cat[s] = n THEN NoNode ELSE held[b].cat[s]]]]

\* Mutant: the parent's foreign key cascades, too.
DeleteSubtree(r) ==
  /\ req[r].op = "delete" /\ ~Referred(req[r].node) /\ ~Attached(req[r].node)
  /\ RowGone(req[r].node)
  /\ up' = [c \in Nodes |->
              IF c = req[r].node \/ up[c] = req[r].node THEN NoNode ELSE up[c]]
  /\ UNCHANGED <<cat, writes>>

DeleteNode(r) ==
  /\ req[r].op = "delete" /\ ~Referred(req[r].node)
  /\ \/ /\ ~Restricted(req[r].node)
        /\ RowGone(req[r].node)
        /\ up' = [up EXCEPT ![req[r].node] = NoNode]
     \/ /\ Restricted(req[r].node)
        /\ req' = [req EXCEPT ![r] = Idle]
        /\ UNCHANGED <<kind, up, boot, held, demoted>>
  /\ UNCHANGED <<cat, writes>>
-------------------------------------------------------------------------------
(* Attaching a series: POST, PATCH and register_series *)

\* Mutant: PATCH does not check what it attaches to.
AttachableIfNew(s, n) == n # NoNode /\ cat[s] = NoSeries => kind[n] = "concept"

\* ensure_category_is_concept, when the request reads the node.
Attachable(s, n) == n # NoNode => kind[n] = "concept"

CheckAttachment(r, s, n) ==
  /\ Route /\ req[r] = Idle /\ Attachable(s, n)
  /\ req' = [req EXCEPT ![r] =
       [op |-> IF cat[s] = NoSeries THEN "post" ELSE "patch", node |-> n, series |-> s]]
  /\ UNCHANGED <<kind, up, cat, boot, held, demoted>>

\* The unique code is checked again, the kind is not; a node that is gone by
\* now has ended the request.
CommitAttachment(r) ==
  /\ req[r].op \in {"post", "patch"} /\ SeriesFree(req[r].series)
  /\ LET s == req[r].series
         n == req[r].node
     IN cat' = IF req[r].op = "patch" \/ cat[s] = NoSeries
               THEN [cat EXCEPT ![s] = n] ELSE cat
  /\ req' = [req EXCEPT ![r] = Idle]
  /\ UNCHANGED <<kind, up, boot, held, demoted, writes>>
-------------------------------------------------------------------------------
(* The bootstrap: the concept and the series of one spec after the other *)

KindSeenBy(b, n) == IF MintedBy(b, n) THEN "concept" ELSE kind[n]

\* A query says which rows there are; those the session holds are as they were loaded.
KindHeldBy(b, n) == IF held[b].kind[n] # "absent" THEN held[b].kind[n] ELSE KindSeenBy(b, n)
SeriesHeldBy(b, s) ==
  IF AttachedBy(b, s) THEN boot[b].attached[s]
  ELSE IF held[b].cat[s] # NoSeries THEN held[b].cat[s] ELSE cat[s]

Goto(b, pc) == boot' = [boot EXCEPT ![b].pc = pc]
Next1(b) == IF boot[b].i = Len(Specs) THEN [boot[b] EXCEPT !.pc = "commit"]
            ELSE [boot[b] EXCEPT !.pc = "concept", !.i = @ + 1]
Flush(b) == UNCHANGED <<kind, up, cat, req, demoted, writes>>

Keep(b) == Flush(b) /\ UNCHANGED held

\* The geography comes with its series, which all of these are, and these with their
\* nodes.
StartBootstrap(b) ==
  /\ boot[b].pc = "idle" /\ Goto(b, "concept") /\ Flush(b)
  /\ held' = [held EXCEPT ![b] =
       [kind |-> [n \in Nodes |-> IF Attached(n) THEN kind[n] ELSE "absent"], cat |-> cat]]

\* A series is loaded anew for its embedding, and its node with it.
Reload(b, n) == held' = [held EXCEPT ![b].kind =
                          [m \in Nodes |-> IF m = n THEN kind[m] ELSE @[m]]]

\* Mutant: a concept that exists is put under the parent of the spec.
FindAndRelink(b) ==
  LET n == Spec(b).concept
  IN /\ boot[b].pc = "concept"
     /\ IF KindSeenBy(b, n) = "concept" /\ Exists(Spec(b).parent)
        THEN boot' = [boot EXCEPT ![b].pc = "series",
                                  ![b].minted = With(@, n, Spec(b).parent)]
        ELSE Goto(b, IF Exists(Spec(b).parent) THEN "mint" ELSE "failing")
     /\ Keep(b)

\* A node of the code that is no concept, or no parent, is refused.
FindConcept(b) ==
  LET n == Spec(b).concept
  IN /\ boot[b].pc = "concept"
     /\ Goto(b, CASE KindHeldBy(b, n) = "concept" -> "series"
                  [] KindHeldBy(b, n) = "topic" -> "failing"
                  [] OTHER -> IF KindSeenBy(b, Spec(b).parent) \in Kinds THEN "mint"
                              ELSE "failing")
     /\ Keep(b)

\* Embedded, then flushed with its edge; a node committed since is a unique
\* violation.
MintConcept(b) ==
  LET n == Spec(b).concept
  IN /\ boot[b].pc = "mint" /\ NodeFree(n)
     /\ IF Exists(n) THEN Goto(b, "failing")
        ELSE boot' = [boot EXCEPT ![b].pc = "series",
                                  ![b].minted = With(@, n, Spec(b).parent)]
     /\ Keep(b)

FindSeries(b) ==
  LET s == Spec(b).series
      seen == SeriesHeldBy(b, s)
  IN /\ boot[b].pc = "series"
     /\ boot' = [boot EXCEPT ![b] =
          CASE seen = NoSeries -> [boot[b] EXCEPT !.pc = "insert"]
            [] seen = Spec(b).concept -> Next1(b)
            [] OTHER -> [boot[b] EXCEPT !.pc = "update"]]
     /\ IF seen = Spec(b).concept THEN Reload(b, cat[s]) ELSE UNCHANGED held
     /\ Flush(b)

\* register_series embeds before it flushes; the concept is the row the
\* session already holds, so its kind is not read again.
WriteSeries(b) ==
  LET s == Spec(b).series
  IN /\ boot[b].pc \in {"insert", "update"}
     /\ SeriesFree(s) \/ AttachedBy(b, s)
     /\ IF boot[b].pc = "insert" /\ cat[s] # NoSeries THEN Goto(b, "failing") /\ UNCHANGED held
        ELSE /\ boot' = [boot EXCEPT ![b] =
                  [Next1(b) EXCEPT !.attached = With(@, s, Spec(b).concept)]]
             /\ Reload(b, Spec(b).concept)
     /\ Flush(b)

Over == [Fresh EXCEPT !.pc = "done"]

\* Mutant: the node and its edge are committed before the series are written.
CommitEachConcept(b) ==
  /\ boot[b].pc \in {"series", "commit"}
  /\ kind' = [n \in Nodes |-> KindSeenBy(b, n)]
  /\ up' = Overlay(boot[b].minted, up)
  /\ cat' = Overlay(boot[b].attached, cat)
  /\ boot' = [boot EXCEPT ![b] = IF @.pc = "commit" THEN Over
                ELSE [@ EXCEPT !.pc = "insert", !.minted = << >>]]
  /\ UNCHANGED <<req, held, demoted, writes>>

CommitBootstrap(b) ==
  /\ boot[b].pc = "commit"
  /\ kind' = [n \in Nodes |-> KindSeenBy(b, n)]
  /\ up' = Overlay(boot[b].minted, up)
  /\ cat' = Overlay(boot[b].attached, cat)
  /\ boot' = [boot EXCEPT ![b] = Over] /\ held' = [held EXCEPT ![b] = Unheld]
  /\ UNCHANGED <<req, demoted, writes>>

\* Mutant: the transaction is left open.
FailKeepingRows(b) ==
  /\ boot[b].pc \notin {"idle", "done"} /\ Goto(b, "done") /\ Keep(b)

\* An exception or the end of the process, at any point: all is rolled back.
Fail(b) ==
  /\ boot[b].pc \notin {"idle", "done"}
  /\ boot' = [boot EXCEPT ![b] = Over] /\ held' = [held EXCEPT ![b] = Unheld]
  /\ Flush(b)
-------------------------------------------------------------------------------
RouteStep ==
  \/ SeedCategories
  \/ \E n \in Nodes, k \in Kinds : PostCategory(n, k) \/ PatchKind(n, k)
  \/ \E p, c \in Nodes : PostEdge(p, c)
  \/ \E c, p, d \in Nodes : PatchEdge(c, p, d)
  \/ \E c \in Nodes : DeleteEdge(c)
  \/ \E r \in Requests, n \in Nodes : FetchToDelete(r, n)
  \/ \E r \in Requests, s \in Series, n \in Nodes \cup {NoNode} :
       CheckAttachment(r, s, n)

Respond(r) == DeleteNode(r) \/ CommitAttachment(r)

Bootstrap(b) == FindConcept(b) \/ MintConcept(b) \/ FindSeries(b)
  \/ WriteSeries(b) \/ CommitBootstrap(b)

TreeNext == RouteStep \/ (\E r \in Requests : Respond(r))
  \/ \E b \in Bootstraps : StartBootstrap(b) \/ Bootstrap(b) \/ Fail(b)

TreeSpec == TreeInit /\ [][TreeNext]_treeVars

\* The event loop goes on with what was started; a failing bootstrap raises.
FairTreeSpec == TreeSpec
  /\ \A b \in Bootstraps :
       WF_treeVars(Bootstrap(b) \/ (boot[b].pc = "failing" /\ Fail(b)))
  /\ \A r \in Requests : WF_treeVars(Respond(r))
-------------------------------------------------------------------------------
(* The walks of the routes *)

\* The recursive term of a walk up, which joins each node with its parent, never
\* leaves such a set of nodes.
StaysIn(S) == \A m \in S : up[m] \in S

\* UNION ALL goes on until a level is empty: list_category_ancestors and the path
\* of a series end unless the node is in such a set; list_category_descendants,
\* the same walk downwards, ends everywhere if they do.
WalkEnds(n) == \A S \in SUBSET Nodes : n \in S => ~StaysIn(S)
-------------------------------------------------------------------------------
(* Properties *)

\* Typed, and no edge and no attached series refers to a node that is gone,
\* whatever is deleted while rows that refer to it are being written.
TypeOK ==
  /\ kind \in [Nodes -> Kinds \cup {"absent"}]
  /\ up \in [Nodes -> Nodes \cup {NoNode}]
  /\ cat \in [Series -> Nodes \cup {NoNode, NoSeries}]
  /\ demoted \subseteq Nodes /\ writes \in 0..MaxWrites
  /\ \A r \in Requests : req[r] = Idle \/ req[r].op \in {"delete", "post", "patch"}
  /\ \A b \in Bootstraps :
       /\ boot[b].pc \in Pcs /\ boot[b].i \in 1..Len(Specs)
       /\ boot[b].minted \in [DOMAIN boot[b].minted -> Nodes]
       /\ boot[b].attached \in [DOMAIN boot[b].attached -> Nodes]
  /\ held \in [Bootstraps -> [kind : [Nodes -> Kinds \cup {"absent"}],
                              cat : [Series -> Nodes \cup {NoNode, NoSeries}]]]
  /\ \A n \in Nodes : up[n] # NoNode => Exists(n) /\ Exists(up[n])
  /\ \A s \in Series : cat[s] \in Nodes => Exists(cat[s])

\* "A series attaches to a concept" is checked before the write and by nobody
\* after it, so a series is on a topic only where PATCH or the seed has made a
\* concept one.
TopicSeriesOnlyByDemotion ==
  \A s \in Series : cat[s] \in Nodes /\ kind[cat[s]] = "topic" => cat[s] \in demoted

\* A deletion makes no root of another node, and takes no series' node away:
\* the session's nulling, RESTRICT and CASCADE together (crud.py, category.py).
DeletionTakesOnlyTheNode ==
  [][\A n \in Nodes : Exists(n) /\ kind'[n] = "absent" =>
       /\ \A c \in Nodes \ {n} : up'[c] = up[c]
       /\ cat' = cat]_treeVars

\* A concept that accretes appears under its parent and together with the
\* series it was minted for, however many bootstraps and routes race for it.
MintedWithItsSeries ==
  [][\A b \in Bootstraps : \A n \in DOMAIN boot[b].minted :
       ~Exists(n) /\ kind'[n] # kind[n] =>
         \/ writes' # writes
         \/ /\ up'[n] = boot[b].minted[n]
            /\ \E i \in 1..Len(Specs) :
                 Specs[i].concept = n /\ cat'[Specs[i].series] = n]_treeVars

\* Only a route call or the seed (which puts a node back under a parent that may
\* be below it by now) can close a cycle: bootstraps mint leaves.
BootstrapsCloseNoCycle ==
  [][(\A n \in Nodes : WalkEnds(n)) /\ writes' = writes =>
       \A n \in Nodes : WalkEnds(n)']_treeVars

\* A bootstrap waits for what others have flushed and then ends: every wait is
\* for a transaction further down the same list of specs.
EveryBootstrapEnds ==
  \A b \in Bootstraps : boot[b].pc = "concept" ~> boot[b].pc = "done"
===============================================================================
