---------------------------- MODULE Aggregation ----------------------------
(***************************************************************************)
(* The merge half of aggregateServer.ServeHTTP                             *)
(* (pkg/kubefed2/proxy/aggregate_server.go): the recorded backend          *)
(* responses are folded in index order into one Table or List, and the     *)
(* fold's end state decides what the client is sent.                       *)
(*                                                                         *)
(* A response is [status, kind, items, cols].  kind is the "kind" field of *)
(* a JSON body ("Table", "List" for any *List kind, "Object" for a single  *)
(* object, "Status" for an API error) or "text" for a body that is not     *)
(* JSON (the filter's 403, stripLeaveSlash's 404, the responder's 500).    *)
(* An item is [obj, src, cell]: the object, the cluster that really holds  *)
(* it, and the Cluster cell the merge appended (NoCell if none).           *)
(***************************************************************************)
EXTENDS Naturals, Sequences

CONSTANT NoCell

Response(status, kind, items, cols) ==
  [status |-> status, kind |-> kind, items |-> items, cols |-> cols]

Text(status) == Response(status, "text", <<>>, 0)

\* The rows of a backend's table, each with the cell clusterName appended.
WithClusterCell(items, clusterName) ==
  [j \in 1..Len(items) |-> [items[j] EXCEPT !.cell = clusterName]]

\* Mutant: the column definition is never appended.
NoClusterColumn(table) == table

\* addClusterToTable: one more column definition, "Cluster".
addClusterToTable(table) == [table EXCEPT !.cols = @ + 1]

\* Mutant: a later backend's rows are put in front of the merged ones.
PrependRows(acc, rows) == [acc EXCEPT !.body.items = rows \o @]

\* table.Rows = append(table.Rows, ...), list.Items = append(list.Items, ...)
AppendRows(acc, rows) == [acc EXCEPT !.body.items = @ \o rows]

(***************************************************************************)
(* One iteration of the merge loop for response r of backend i, labelled   *)
(* clusterName.  acc.mode is "none" before the first body, "table" or      *)
(* "list" once the base object is set, "oops" after the early return on an *)
(* unknown kind and "panic" when the loop dereferences a nil pointer:      *)
(* Interpret fails on a non-JSON body and returns a nil gvk, and a Table   *)
(* (List) after a first List (Table) appends to the nil table (list).      *)
(***************************************************************************)
MergeOne(acc, i, r, clusterName) ==
  CASE r.kind = "text" ->
         [acc EXCEPT !.mode = "panic"]
    [] r.kind = "Table" /\ i = 1 ->
         [mode |-> "table",
          body |-> addClusterToTable([r EXCEPT !.items =
                                        WithClusterCell(@, clusterName)])]
    [] r.kind = "Table" /\ acc.mode # "table" ->
         [acc EXCEPT !.mode = "panic"]
    [] r.kind = "Table" ->
         AppendRows(acc, WithClusterCell(r.items, clusterName))
    [] r.kind = "List" /\ i = 1 ->
         [mode |-> "list", body |-> r]
    [] r.kind = "List" /\ acc.mode # "list" ->
         [acc EXCEPT !.mode = "panic"]
    [] r.kind = "List" ->
         AppendRows(acc, r.items)
    [] OTHER ->
         [acc EXCEPT !.mode = "oops"]

\* The merge loop over responses[i..] with labels clusterNames[i..]; it
\* stops at an early return or a panic.
RECURSIVE MergeFrom(_, _, _, _)
MergeFrom(acc, i, responses, clusterNames) ==
  IF i > Len(responses) \/ acc.mode \in {"oops", "panic"}
    THEN acc
    ELSE MergeFrom(MergeOne(acc, i, responses[i], clusterNames[i]),
                   i + 1, responses, clusterNames)

(***************************************************************************)
(* What the client receives.  A panic is recovered by net/http, which      *)
(* drops the connection: no status, "reset".  The early return writes     *)
(* nothing, so the server sends an empty 200.  Otherwise the list (if set) or else the *)
(* table is marshalled with an implicit 200; with no responses at all the  *)
(* table is nil and the body is "null".                                    *)
(***************************************************************************)
MergedResponse(responses, clusterNames) ==
  LET acc == MergeFrom([mode |-> "none", body |-> Text(200)], 1,
                       responses, clusterNames)
  IN CASE acc.mode = "panic" -> Response(0, "reset", <<>>, 0)
       [] acc.mode = "oops"  -> Response(200, "empty", <<>>, 0)
       [] acc.mode = "none"  -> Response(200, "null", <<>>, 0)
       [] OTHER -> [acc.body EXCEPT !.status = 200]
=============================================================================
