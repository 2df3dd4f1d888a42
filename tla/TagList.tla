------------------------------- MODULE TagList -------------------------------
(***************************************************************************)
(* list_tag_idx_: the list of pairs (tag, object address) that the client  *)
(* and the asynchronous server both keep beside their completion queue.    *)
(* The queue hands back an untyped address; the list tells which struct to *)
(* cast it to.  The list is a sequence of records [tag, obj].  Every       *)
(* operation runs under mutex_list_tag_idx_, hence is one atomic step.     *)
(***************************************************************************)
EXTENDS SequencesExt

\* tag_push: push_back of a new pair.
TagPush(list, tag, obj) == Append(list, [tag |-> tag, obj |-> obj])

\* std::find_if by address: the position of the first pair, 0 for end().
TagFind(list, obj) == SelectInSeq(list, LAMBDA e : e.obj = obj)

\* The tag a find of obj reads through the iterator (it must not be end()).
TagOf(list, obj) == list[TagFind(list, obj)].tag

\* list_tag_idx_.erase(it) at the position find_if returned.
TagErase(list, obj) == RemoveAt(list, TagFind(list, obj))

\* The pairs of the list, and the addresses in them.
Entries(list) == ToSet(list)
Listed(list) == {e.obj : e \in ToSet(list)}

\* No address is listed twice: find_if by address is then unambiguous.
UniqueObj(list) ==
  \A i, j \in 1 .. Len(list) : list[i].obj = list[j].obj => i = j
==============================================================================
