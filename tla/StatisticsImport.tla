--------------------------- MODULE StatisticsImport ---------------------------
(***************************************************************************)
(* The city's statistics (services/flensburg_statistics_import.py): a      *)
(* timer, and an operator at any time, download what the city publishes    *)
(* and write the figures that have changed, in one transaction without a   *)
(* lock of its own.  What is waited for are rows of PostgreSQL: of the     *)
(* catalogue and of the figures.  The log of runs, which nothing reads, is *)
(* left out.                                                               *)
(***************************************************************************)
EXTENDS Naturals

CONSTANTS
  None,
  Figures,    \* figures of different datasets
  Values, Absent, \* what is published of a figure; not in the download (any more)
  MaxEditions \* times the city publishes anew

VARIABLES
  source, editions,  \* what the city publishes, and editions to come
  seeded,  \* the mappings of areas and the catalogue are committed
  table,   \* statistical_observations
  import,  \* the runs: step, downloads, figures to write, rows held; whether undisturbed
  sure     \* what was published when the last import committed, if that was undisturbed

vars == <<source, editions, seeded, table, import, sure>>

Importers == {"timer", "operator"}
Published == [Figures -> Values \cup {Absent}]
NoImport  == [at |-> "idle", got |-> [g \in Figures |-> None], todo |-> {}, mine |-> {}, alone |-> FALSE]

Goes(i, place) == import' = [import EXCEPT ![i].at = place]
Ends(i)   == import' = [import EXCEPT ![i] = NoImport]
Others(i) == Importers \ {i}
Held(i, k) == \E j \in Others(i) : k \in import[j].mine

(* Others begin, or what is published changes: who works is disturbed. *)
Disturbed == [i \in Importers |-> [import[i] EXCEPT !.alone = FALSE]]

Init ==
  /\ source \in [Figures -> Values] /\ editions \in 0 .. MaxEditions
  /\ seeded \in BOOLEAN /\ table = IF seeded THEN source ELSE [g \in Figures |-> Absent]
  /\ import = [i \in Importers |-> NoImport] /\ sure = None

-----------------------------------------------------------------------------
(* Mutant: a figure that is there is taken for unchanged. *)
IsNew(old, new) == old = Absent

(* observation_change: the hash of the row in the table and of the download *)
Changed(old, new) == old # new

Publish ==
  /\ editions > 0 /\ editions' = editions - 1
  /\ source' \in Published \ {source} /\ import' = Disturbed
  /\ UNCHANGED <<seeded, table, sure>>

Begin(i) ==
  /\ import[i].at = "idle"
  /\ import' = [Disturbed EXCEPT ![i].at = "mappings",
                                 ![i].alone = \A j \in Others(i) : import[j].at = "idle"]
  /\ UNCHANGED <<source, editions, seeded, table, sure>>

(* _ensure_mappings: what is missing is inserted, which waits for a run that has inserted *)
(* it and not committed ("held"), and fails where that run commits.                       *)
EnsureMappings(i) ==
  /\ import[i].at \in {"mappings", "held"}
  /\ \/ seeded /\ import[i].at = "mappings" /\ Goes(i, "download")
     \/ seeded /\ import[i].at = "held" /\ Ends(i)
     \/ ~seeded /\ ~Held(i, "mappings")
        /\ import' = [import EXCEPT ![i].at = "download", ![i].mine = {"mappings"}]
     \/ ~seeded /\ Held(i, "mappings") /\ import[i].at = "mappings" /\ Goes(i, "held")
  /\ UNCHANGED <<source, editions, seeded, table, sure>>

Download(i, g) ==
  /\ import[i].at = "download" /\ import[i].got[g] = None
  /\ import' = [import EXCEPT ![i].got[g] = source[g],
                  ![i].at = IF \A h \in Figures \ {g} : import[i].got[h] # None THEN "catalog" ELSE @]
  /\ UNCHANGED <<source, editions, seeded, table, sure>>

(* _ensure_catalog: a date of the source that has changed is written, which holds the *)
(* rows of the datasets until the commit.                                             *)
EnsureCatalog(i) ==
  /\ import[i].at = "catalog"
  /\ \/ Goes(i, "read")
     \/ ~Held(i, "datasets") /\ import' = [import EXCEPT ![i].at = "read", ![i].mine = @ \cup {"datasets"}]
  /\ UNCHANGED <<source, editions, seeded, table, sure>>

(* The committed rows are read once; those that differ from the download will be written. *)
Read(i) ==
  /\ import[i].at = "read"
  /\ import' = [import EXCEPT ![i].at = "upsert",
       ![i].todo = {g \in Figures : import[i].got[g] # Absent /\ Changed(table[g], import[i].got[g])}]
  /\ UNCHANGED <<source, editions, seeded, table, sure>>

(* INSERT ... ON CONFLICT DO UPDATE.  The city's totals come in the order of a Python set, *)
(* which is another one in each process.                                                   *)
Upsert(i, g) ==
  /\ import[i].at = "upsert" /\ g \in import[i].todo /\ ~Held(i, g)
  /\ import' = [import EXCEPT ![i].todo = @ \ {g}, ![i].mine = @ \cup {g}]
  /\ UNCHANGED <<source, editions, seeded, table, sure>>

(* The datasets' last_import_at, the run's success, the summary for the social media, the *)
(* versions of the cache and the notifications, all in the commit                         *)
Commit(i) ==
  /\ import[i].at = "upsert" /\ import[i].todo = {} /\ ~Held(i, "datasets")
  /\ table' = [g \in Figures |-> IF g \in import[i].mine THEN import[i].got[g] ELSE table[g]]
  /\ seeded' = TRUE /\ sure' = (IF import[i].alone THEN source ELSE None)
  /\ Ends(i) /\ UNCHANGED <<source, editions>>

(* The network, a drifted inventory, an unknown area, a killed process: rolled back *)
Fail(i) ==
  /\ import[i].at # "idle" /\ Ends(i)
  /\ UNCHANGED <<source, editions, seeded, table, sure>>

(* Each waits for a row the other has: PostgreSQL ends one of them. *)
Wants(i) ==
  CASE import[i].at = "catalog" -> {"datasets"}
    [] import[i].at = "upsert"  -> IF import[i].todo # {} THEN import[i].todo ELSE {"datasets"}
    [] OTHER -> {}
Deadlock ==
  /\ \A i \in Importers : \E j \in Others(i) : Wants(i) \cap import[j].mine # {}
  /\ \E i \in Importers : Ends(i)
  /\ UNCHANGED <<source, editions, seeded, table, sure>>

-----------------------------------------------------------------------------
(* import_flensburg_statistics *)
Work(i) ==
  \/ EnsureMappings(i) \/ EnsureCatalog(i) \/ Read(i) \/ Commit(i)
  \/ \E g \in Figures : Download(i, g) \/ Upsert(i, g)
Next ==
  \/ Publish \/ Deadlock
  \/ \E i \in Importers : Begin(i) \/ Work(i) \/ Fail(i)

-----------------------------------------------------------------------------
TypeOK ==
  /\ source \in Published /\ table \in Published
  /\ \A i \in Importers : import[i].todo \subseteq Figures

(* An import that nothing disturbed leaves what the city publishes, whatever *)
(* earlier ones have left half-way, overtaken or mixed from two editions;    *)
(* only a figure that is not published any more stays as it was.             *)
FiguresArePublished ==
  sure # None => \A g \in Figures : sure[g] # Absent => table[g] = sure[g]
=============================================================================
