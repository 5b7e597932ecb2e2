------------------------------ MODULE Filedesc ------------------------------
(***************************************************************************)
(* Descriptor tables and reference counts of files (sys/kern/filedesc.c,   *)
(* file.c, file_syscalls.c).  A table belongs to one process with one      *)
(* thread, so its entries are touched by nobody else, and the hold that a  *)
(* call takes on a file while its own table has it is left out.  The table *)
(* is as large as it grows.                                                *)
(***************************************************************************)
EXTENDS Naturals, FiniteSets

CONSTANTS
  Procs,
  Fds,     \* bound: descriptors in a table, 0 .. n
  Files,
  NULL

ASSUME FiledescAssumption ==
  /\ Fds \subseteq Nat /\ IsFiniteSet(Fds) /\ Fds # {}
  /\ IsFiniteSet(Procs)
  /\ NULL \notin Files

VARIABLES
  fdt_entries, \* [Procs -> [Fds -> Files or NULL]]
  f_count,     \* [Files -> Nat]
  leaked       \* history: holds taken for no entry, per file

fdVars == <<fdt_entries, f_count, leaked>>

EmptyTable == [fd \in Fds |-> NULL]
fd_is_used(p, fd) == fdt_entries[p][fd] # NULL
Has(p, f) == \E fd \in Fds : fdt_entries[p][fd] = f

\* Entries of table t with file f, and of all tables.
EntriesOf(t, f) == {fd \in Fds : t[fd] = f}
Entries(f) == {e \in Procs \X Fds : fdt_entries[e[1]][e[2]] = f}

\* fd_alloc: the first free descriptor of a table that has one (EMFILE and
\* growing the table are left out).
FirstFree(p, fd) ==
  ~ fd_is_used(p, fd) /\ \A g \in Fds : g < fd => fd_is_used(p, g)

\* fdtab_install_file, for a file f that p has open.
do_dup(p, old, new) ==
  /\ fd_is_used(p, old) /\ FirstFree(p, new)
  /\ fdt_entries' = [fdt_entries EXCEPT ![p][new] = fdt_entries[p][old]]
  /\ f_count' = [f_count EXCEPT ![fdt_entries[p][old]] = @ + 1]
  /\ UNCHANGED leaked

\* fdtab_install_file_at when the descriptor is free or has the same file;
\* in both cases it takes a hold.  When it has another file, that one is
\* dropped by fd_free first: see Dup2 in Pipe.
do_dup2(p, old, new) ==
  /\ old # new /\ fd_is_used(p, old)
  /\ fdt_entries[p][new] \in {NULL, fdt_entries[p][old]}
  /\ fdt_entries' = [fdt_entries EXCEPT ![p][new] = fdt_entries[p][old]]
  /\ f_count' = [f_count EXCEPT ![fdt_entries[p][old]] = @ + 1]
  /\ leaked' = IF fd_is_used(p, new)
               THEN [leaked EXCEPT ![fdt_entries[p][old]] = @ + 1] ELSE leaked

\* Variant: the copy of the table does not hold the files.
fdtab_copy_Unheld(p, c) ==
  /\ fdt_entries' = [fdt_entries EXCEPT ![c] = fdt_entries[p]]
  /\ UNCHANGED <<f_count, leaked>>

fdtab_copy(p, c) ==
  /\ fdt_entries' = [fdt_entries EXCEPT ![c] = fdt_entries[p]]
  /\ f_count' = [f \in Files |-> f_count[f] + Cardinality(EntriesOf(fdt_entries[p], f))]
  /\ UNCHANGED leaked

\* fd_free; the caller goes on with file_destroy if LastDrop.
fd_free(p, fd) ==
  /\ fd_is_used(p, fd)
  /\ fdt_entries' = [fdt_entries EXCEPT ![p][fd] = NULL]
  /\ f_count' = [f_count EXCEPT ![fdt_entries[p][fd]] = @ - 1]
  /\ UNCHANGED leaked

LastDrop(p, fd) == f_count[fdt_entries[p][fd]] = 1
=============================================================================
