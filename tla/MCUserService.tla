----------------------------- MODULE MCUserService -----------------------------
(***************************************************************************)
(* Instances of UserService for model checking.  A request is a record of  *)
(* its queue, the parts of its body and whether it is whole.               *)
(***************************************************************************)
EXTENDS UserService

Request(q, parts, whole) == [queue |-> q, parts |-> parts, whole |-> whole]

RequestQueue(r) == r.queue
RequestParts(r) == r.parts
RequestWhole(r) == r.whole
RequestWords == {"alice", "bob", "cats", "s1", "s2", ""}

\* Requests of alice on queues that share the map of sessions: a profile, a
\* search in the same session, and a note that lacks a field in another; and
\* an entity, for which there is no session, behind a body that is no JSON.
Shared == {
  Request("user_pub_key", <<"alice", "s1">>, TRUE),
  Request("search", <<"cats", "s1", "alice">>, TRUE),
  Request("new_note", <<"alice", "s2">>, FALSE),
  Request("nostr_entity", << >>, FALSE),
  Request("nostr_entity", << >>, TRUE)}

\* Two queues, with bodies that do not fit next to others.
Mixed == {
  Request("user_pub_key", <<"alice", "s1">>, TRUE),
  Request("user_pub_key", <<"alice">>, TRUE),
  Request("follow_notes", <<"alice", "s2">>, TRUE),
  Request("follow_notes", <<"alice", "bob", "s2">>, TRUE)}
================================================================================
