------------------------- MODULE PredicateRegistry -------------------------
(***************************************************************************)
(* packages/predicate-lib: the generator (src/generator.ts), which writes  *)
(* the circuit of a predicate and then its entry in predicates.json, and   *)
(* the registry as a process sees it (src/index.ts): the file as it was    *)
(* when the process first asked for it.  Of an entry only the access       *)
(* groups are kept.                                                        *)
(***************************************************************************)
EXTENDS Naturals

CONSTANTS
  Predicates,   \* canonical ids, <name>_<version>
  AccessGroups, \* those that configurations name
  Shipped,      \* predicates.json as it is when the system is installed
  Configs,      \* the configurations predicates are generated from
  MaxRuns       \* bound on calls of generatePredicate

ASSUME RegistryAssumption ==
  /\ Shipped \in [Predicates -> SUBSET AccessGroups]
  /\ Configs \subseteq [predicate : Predicates, groups : (SUBSET AccessGroups) \ {{}}]
  /\ MaxRuns \in Nat

VARIABLES
  circuits,     \* the predicates whose circuit files exist
  registry,     \* predicates.json: access groups of each entry; {}: no entry
  generating,   \* generatePredicate between its two writes: [predicate, groups]
  runs,         \* calls of generatePredicate so far
  loaded,       \* getRegistry has read the file in this process ...
  cached        \* ... and keeps what it read

registryVars == <<circuits, registry, generating, runs, loaded, cached>>

RegistryTypeOK ==
  /\ circuits \subseteq Predicates
  /\ registry \in [Predicates -> SUBSET AccessGroups]
  /\ generating \subseteq Configs
  /\ runs \in 0..MaxRuns
  /\ loaded \in BOOLEAN
  /\ cached \in [Predicates -> SUBSET AccessGroups]
  \* What the registry names can be compiled.
  /\ \A p \in Predicates : registry[p] # {} => p \in circuits

RegistryInit ==
  /\ circuits = {p \in Predicates : Shipped[p] # {}}
  /\ registry = Shipped
  /\ generating = {}
  /\ runs = 0
  /\ loaded = FALSE
  /\ cached = [p \in Predicates |-> {}]

\* generatePredicate: the circuit is written from its template ...
WriteCircuitFiles(config) ==
  /\ generating = {}
  /\ runs < MaxRuns
  /\ runs' = runs + 1
  /\ generating' = {config}
  /\ circuits' = circuits \cup {config.predicate}
  /\ UNCHANGED <<registry, loaded, cached>>

\* ... and then the entry, which replaces an earlier one of the same id.
UpdateRegistry ==
  /\ \E config \in generating :
       registry' = [registry EXCEPT ![config.predicate] = config.groups]
  /\ generating' = {}
  /\ UNCHANGED <<circuits, runs, loaded, cached>>

\* The script is interrupted between the two.
GeneratorStops ==
  /\ generating # {}
  /\ generating' = {}
  /\ UNCHANGED <<circuits, registry, runs, loaded, cached>>

\* getRegistry: what a lookup now sees, and the cache it leaves behind.
Registry == IF loaded THEN cached ELSE registry

LoadRegistry ==
  /\ loaded' = TRUE
  /\ cached' = Registry
  /\ UNCHANGED <<circuits, registry, generating, runs>>

\* getPredicate(p)?.accessGroups.includes(g): an unknown predicate is in no group.
InAccessGroup(p, g) == g \in Registry[p]

\* A new process has read nothing yet.
ForgetRegistry ==
  /\ loaded' = FALSE
  /\ cached' = [p \in Predicates |-> {}]
  /\ UNCHANGED <<circuits, registry, generating, runs>>

=============================================================================
