--------------------------- MODULE RelationRepair ---------------------------
(***************************************************************************)
(* The offline repair of a legacy relation table                           *)
(* (crates/mcpmem-core/src/relation_integrity.rs, run by the maintenance   *)
(* binary): back the file up under a new path, then in one transaction     *)
(* check it, delete duplicate rows, recount, make the triple unique and    *)
(* audit again.  Any step may fail and the process may stop at any point;  *)
(* what the transaction has not committed is gone then.  The server is     *)
(* stopped meanwhile, as the README asks.                                  *)
(***************************************************************************)
EXTENDS Integers, FiniteSets

CONSTANTS
    OldFiles,     \* files the operator may have
    BackupPaths,
    MaxRepairs    \* bound: attempts

VARIABLES
    file,      \* the database file
    original,  \* as it was before anyone repaired it
    backups,   \* the files under the backup paths
    repair,    \* the attempt under way
    tried      \* attempts begun

repairVars == <<file, original, backups, repair, tried>>

NotRunning == [pc |-> "idle"]
Reserved == {}   \* an empty file

RepairInit ==
    /\ original \in OldFiles /\ file = original
    /\ backups = [p \in {} |-> Reserved] /\ repair = NotRunning /\ tried = 0

-----------------------------------------------------------------------------
(* A file is a record of these fields.  A row is [id, triple, created], and
   the id is its key; types has the relation types and their stored counts. *)

IsFile(f) ==
    f = [rows |-> f.rows, index |-> f.index, sound |-> f.sound, stat |-> f.stat,
         types |-> f.types, out |-> f.out, in |-> f.in]

Keyed(rows) ==
    \A r \in rows : r.id \in Nat /\ r.created \in Nat /\ \A s \in rows : s.id = r.id => s = r

ASSUME RepairAssumption == \A f \in OldFiles : IsFile(f) /\ Keyed(f.rows)

(* The audit. *)

RowsWith(f, i, x) == {r \in f.rows : r.triple[i] = x}
Groups(f) == {r.triple : r \in f.rows}
Dangling(f) ==
    {r \in f.rows : {r.triple[1], r.triple[2]} \ DOMAIN f.out # {} \/ r.triple[3] \notin DOMAIN f.types}

audit_current(f) ==
    [duplicates |-> Cardinality(f.rows) - Cardinality(Groups(f)),
     dangling |-> Cardinality(Dangling(f)),
     relations |-> f.stat # Cardinality(f.rows),
     types |-> {t \in DOMAIN f.types : f.types[t] # Cardinality(RowsWith(f, 3, t))},
     out |-> {e \in DOMAIN f.out : f.out[e] # Cardinality(RowsWith(f, 1, e))},
     in |-> {e \in DOMAIN f.in : f.in[e] # Cardinality(RowsWith(f, 2, e))}]

is_clean(a) ==
    a.duplicates = 0 /\ a.dangling = 0 /\ ~a.relations /\ a.types = {} /\ a.out = {} /\ a.in = {}

rebuild_relation_caches(f) ==
    [f EXCEPT !.stat = Cardinality(f.rows),
              !.types = [t \in DOMAIN @ |-> Cardinality(RowsWith(f, 3, t))],
              !.out = [e \in DOMAIN @ |-> Cardinality(RowsWith(f, 1, e))],
              !.in = [e \in DOMAIN @ |-> Cardinality(RowsWith(f, 2, e))]]

(* The first row of a triple: the earliest, and of those the lowest id. *)
Before(r, s) == r.created < s.created \/ (r.created = s.created /\ r.id < s.id)
Oldest(rows) == {r \in rows : \A s \in rows : s.triple = r.triple /\ s # r => Before(r, s)}

-----------------------------------------------------------------------------
(* Steps of an attempt. *)

Going(pc) == repair # NotRunning /\ repair.pc = pc
On(pc, tx) == repair' = [repair EXCEPT !.pc = pc, !.tx = tx] /\ UNCHANGED <<file, original, backups, tried>>

(* Mutant of reserve_backup: an old backup is written over. *)
ReserveAgain(p) ==
    /\ repair = NotRunning /\ tried < MaxRepairs
    /\ backups' = [q \in DOMAIN backups \cup {p} |-> IF q = p THEN Reserved ELSE backups[q]]
    /\ repair' = [pc |-> "backup", path |-> p, tx |-> file] /\ tried' = tried + 1
    /\ UNCHANGED <<file, original>>

(* create_new: a path that exists, also one a failed attempt left, is
   refused. *)
reserve_backup(p) ==
    /\ repair = NotRunning /\ tried < MaxRepairs /\ p \notin DOMAIN backups
    /\ backups' = [q \in DOMAIN backups \cup {p} |-> IF q = p THEN Reserved ELSE backups[q]]
    /\ repair' = [pc |-> "backup", path |-> p, tx |-> file] /\ tried' = tried + 1
    /\ UNCHANGED <<file, original>>

(* The copy, and its integrity_check. *)
backup_and_verify ==
    /\ Going("backup")
    /\ backups' = [backups EXCEPT ![repair.path] = {file}]
    /\ repair' = IF file.sound THEN [repair EXCEPT !.pc = "begin"] ELSE NotRunning
    /\ UNCHANGED <<file, original, tried>>

(* BEGIN IMMEDIATE, validate_source and the audit before. *)
validate_source == Going("begin") /\ file.sound /\ audit_current(file).dangling = 0 /\ On("delete", file)

DeleteDuplicates == Going("delete") /\ On("recount", [repair.tx EXCEPT !.rows = Oldest(@)])

Recount == Going("recount") /\ On("index", rebuild_relation_caches(repair.tx))

(* An index of that name must be a whole unique one on the triple; one is
   made where there is none, which duplicates would prevent. *)
ensure_relation_unique_index ==
    /\ Going("index")
    /\ \/ repair.tx.index = "none" /\ audit_current(repair.tx).duplicates = 0
       \/ repair.tx.index = "triple"
    /\ On("audit", [repair.tx EXCEPT !.index = "triple"])

CommitRepair ==
    /\ Going("audit") /\ is_clean(audit_current(repair.tx))
    /\ file' = repair.tx /\ repair' = NotRunning
    /\ UNCHANGED <<original, backups, tried>>

(* A check that refuses, a statement that fails, or a process that stops:
   the guard rolls the transaction back. *)
RepairFails == repair # NotRunning /\ repair' = NotRunning /\ UNCHANGED <<file, original, backups, tried>>

(* The audit alone reads, and a repair that is not confirmed or names no
   backup is refused. *)
audit == repair = NotRunning /\ UNCHANGED repairVars

RepairNext ==
    \/ audit \/ \E p \in BackupPaths : reserve_backup(p)
    \/ backup_and_verify \/ validate_source \/ DeleteDuplicates \/ Recount
    \/ ensure_relation_unique_index \/ CommitRepair \/ RepairFails

RepairSpec == RepairInit /\ [][RepairNext]_repairVars

-----------------------------------------------------------------------------
(* Every relation of the file as it was, by its first row and no other. *)
Pruned(f) ==
    /\ f.rows \subseteq original.rows /\ Groups(f) = Groups(original)
    /\ \A r \in f.rows : ~\E s \in original.rows : s.triple = r.triple /\ Before(s, r)

Repaired(f) == is_clean(audit_current(f)) /\ f.index = "triple" /\ Pruned(f)

(* However attempts fail and are repeated, the file is as it was, or it is
   repaired: clean, with the triple unique, every relation there by its
   first row; and then some backup still holds the file as it was. *)
RepairExact ==
    file # original =>
        /\ Repaired(file)
        /\ \E p \in DOMAIN backups : backups[p] = {original}

(* What an attempt has made sure of by the time it stands at each statement. *)
AttemptInv ==
    repair # NotRunning =>
        /\ repair = [pc |-> repair.pc, path |-> repair.path, tx |-> repair.tx]
        /\ IsFile(repair.tx) /\ repair.path \in DOMAIN backups
        /\ repair.pc \in {"backup", "begin", "delete", "recount", "index", "audit"}
        /\ repair.pc = "backup" => backups[repair.path] = Reserved
        /\ repair.pc # "backup" /\ file = original => backups[repair.path] = {original}
        /\ repair.pc = "delete" => repair.tx = file
        /\ repair.pc \in {"recount", "index", "audit"} => Pruned(repair.tx)
        /\ repair.pc = "audit" => repair.tx.index = "triple"

RepairInv ==
    /\ original \in OldFiles /\ IsFile(file)
    /\ backups = [p \in DOMAIN backups |-> backups[p]]
    /\ RepairExact /\ AttemptInv

==============================================================================
