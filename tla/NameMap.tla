------------------------------ MODULE NameMap ------------------------------
(***************************************************************************)
(* What a directory promises whoever stores metadata in it: entries, each  *)
(* with a name of its own.  A call does to the entry it names what it was  *)
(* asked for, and says so; or it says that the name is there already, or   *)
(* is not; or it is refused.  Nothing else ever changes.  DirectoryMap is  *)
(* shown to implement this where it does.                                  *)
(***************************************************************************)
VARIABLES
  entries,
  request,  \* the last call: its name and arguments
  outcome   \* what it returned

Has(set, name) == \E entry \in set : entry.name = name

Others(set, name) == {entry \in set : entry.name # name}

With(set, r) ==
  Others(set, r.name) \cup {[name |-> r.name, size |-> r.size, stamp |-> r.stamp]}

Init == entries = {} /\ request = [call |-> "reopen"] /\ outcome = "ok"
-----------------------------------------------------------------------------
(* r: the request; before, after: the entries.                             *)

Insert(r, before, after) ==
  r.call = "insert" /\ ~Has(before, r.name) /\ after = With(before, r)

Replace(r, before, after) ==
  r.call = "replace" /\ Has(before, r.name) /\ after = With(before, r)

\* Through a handle.
Update(r, before, after) ==
  /\ r.call = "update" /\ Has(before, r.name)
  /\ after = {IF entry.name = r.name THEN [entry EXCEPT !.stamp = r.stamp] ELSE entry :
                entry \in before}

Erase(r, before, after) ==
  r.call = "erase" /\ Has(before, r.name) /\ after = Others(before, r.name)

Load(r, before, after) ==
  r.call = "load" /\ Has(before, r.name) /\ after = before

\* Even the end of the program, once all is flushed.
Keep(r, before, after) ==
  r.call \in {"drop", "flush", "reopen", "killed"} /\ after = before

Exists(r, before, after) ==
  r.call = "insert" /\ Has(before, r.name) /\ after = before

Absent(r, before, after) ==
  r.call \in {"replace", "erase", "load"} /\ ~Has(before, r.name) /\ after = before

Answers == {"ok", "exists", "absent"}

\* Both are bound to be evaluated once: in DirectoryMap each walks the tree.
Next ==
  \E r \in {request'}, before \in {entries}, after \in {entries'} :
    \/ outcome' = "ok" /\ (\/ Insert(r, before, after) \/ Replace(r, before, after)
                           \/ Update(r, before, after) \/ Erase(r, before, after)
                           \/ Load(r, before, after) \/ Keep(r, before, after))
    \/ outcome' = "exists" /\ Exists(r, before, after)
    \/ outcome' = "absent" /\ Absent(r, before, after)
    \/ outcome' \notin Answers /\ after = before

Spec == Init /\ [][Next]_<<entries, request, outcome>>
=============================================================================
