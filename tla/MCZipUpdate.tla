---------------------------- MODULE MCZipUpdate ----------------------------
(* Instances of ZipUpdate for TLC. *)
EXTENDS ZipUpdate

File(size, passes) == [kind |-> "file", size |-> size, passes |-> passes]
Other(kind) == [kind |-> kind, size |-> 0, passes |-> <<>>]

(* Files that need more blocks than there are, that are packed twice and   *)
(* get smaller, and empty ones, with items in between that need no thread. *)
(* There are more files than threads: a thread goes on to another file     *)
(* after it has had the real stream, or had it offered and not needed it.  *)
MCUpdates == {<<File(3, <<2>>), File(2, <<3, 1>>), Other("dir"), File(1, <<1>>),
                File(2, <<3>>)>>,
              <<Other("old"), File(1, <<2, 2>>), Other("skip"), File(2, <<3>>),
                File(0, <<0>>), File(3, <<1>>)>>}
=============================================================================
