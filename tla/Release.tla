------------------------------- MODULE Release -------------------------------
(***************************************************************************)
(* Pressing a release (cmdlet/create_release.rs): from a template that     *)
(* says which package implements which service, and a registry of package  *)
(* versions, the manifest of a deployment: every public service, and one   *)
(* component for every service that is needed, directly or not.            *)
(*                                                                         *)
(* Services and versions are numbers, in the order of their names and of   *)
(* semver; a version requirement is the set of versions it matches. The    *)
(* steps are the iterations of resolve's loop. Configuration, sandbox and  *)
(* hashes are copied along unchanged and left out.                         *)
(***************************************************************************)
EXTENDS Naturals, Sequences, FiniteSetsExt, Functions

CONSTANTS
  Services,    \* service names, in order
  Packages,
  Templates,   \* the templates a release may be pressed from
  Registries   \* the registries it may be pressed with

\* Names are names of services, and a template's packages are in the registry.
ASSUME ReleaseAssumption ==
  /\ Services \subseteq Nat
  /\ \A t \in Templates :
       /\ t.public \in Seq(Services)
       /\ \A s \in DOMAIN t.impl : t.impl[s].pkg \in Packages
  /\ \A r \in Registries, p \in Packages : \A v \in DOMAIN r[p] :
       r[p][v].requires \in Seq(Services)

VARIABLES
  template,    \* [public : Seq(Services), impl : service -> [pkg, req]]
  registry,    \* package -> version -> [readable, requires : Seq(Services)]
  phase,       \* what the linker is doing
  failure,     \* why it gave up
  unresolved,  \* unresolved_local_services
  resolved,    \* resolved_local_services
  manifest     \* the DeploymentManifest

releaseVars == <<template, registry, phase, failure, unresolved, resolved, manifest>>

\* An error is returned to main, which unwraps it.
Giveup(why) == phase' = "failed" /\ failure' = why

ReleaseInit ==
  /\ template \in Templates
  /\ registry \in Registries
  /\ phase = "public"
  /\ failure = "none"
  /\ unresolved = <<>>
  /\ resolved = <<>>
  /\ manifest = [public |-> <<>>, components |-> <<>>]

-------------------------------------------------------------------------------
(* The registry *)

\* find_best_entry_for_version: the newest version that matches, or nothing if
\* there is none or its sha256 and manifest.json cannot be read. An older
\* version is not tried.
FindBest(pkg, req) ==
  LET matching == req \cap DOMAIN registry[pkg]
  IN  {[version |-> v, requires |-> registry[pkg][v].requires] :
         v \in {w \in matching : w = Max(matching) /\ registry[pkg][w].readable}}

-------------------------------------------------------------------------------
(* resolve *)

Implemented(s) == s \in DOMAIN template.impl

ServiceId(s) == [pkg |-> template.impl[s].pkg, service |-> s]

\* The loop over the public services.
ResolvePublic ==
  /\ phase = "public"
  /\ IF \A s \in Range(template.public) : Implemented(s)
     THEN /\ phase' = "resolve"
          /\ unresolved' = template.public
          /\ manifest' = [manifest EXCEPT !.public =
               [i \in DOMAIN template.public |-> ServiceId(template.public[i])]]
          /\ UNCHANGED failure
     ELSE Giveup("missing") /\ UNCHANGED <<unresolved, manifest>>
  /\ UNCHANGED <<template, registry, resolved>>

\* A service whose registry entry was found becomes a component, and what it
\* requires is to be resolved.
Resolve(s, found) ==
  /\ unresolved' = Tail(unresolved) \o found.requires
  /\ LET component ==
           [pkg |-> template.impl[s].pkg, version |-> found.version,
            requires |-> [i \in DOMAIN found.requires |-> ServiceId(found.requires[i])]]
     IN  resolved' = [t \in DOMAIN resolved \cup {s} |->
                        IF t = s THEN component ELSE resolved[t]]

\* Mutant of Skip: the service is moved to the back of the queue.
SkipRequeues(s) == unresolved' = Append(Tail(unresolved), s) /\ UNCHANGED resolved

\* A service that is resolved already.
Skip(s) == unresolved' = Tail(unresolved) /\ UNCHANGED resolved

\* The registry entry for a service, if there is one and the template
\* implements all that it requires.
Usable(s) ==
  {entry \in IF Implemented(s)
             THEN FindBest(template.impl[s].pkg, template.impl[s].req) ELSE {} :
     \A r \in Range(entry.requires) : Implemented(r)}

\* One iteration of the loop over unresolved_local_services.
ResolveNext ==
  /\ phase = "resolve"
  /\ unresolved # <<>>
  /\ LET s == Head(unresolved)
     IN  \/ /\ s \in DOMAIN resolved
            /\ Skip(s) /\ UNCHANGED <<phase, failure>>
         \/ /\ s \notin DOMAIN resolved
            /\ \E entry \in Usable(s) : Resolve(s, entry)
            /\ UNCHANGED <<phase, failure>>
         \/ /\ s \notin DOMAIN resolved
            /\ Usable(s) = {}
            /\ Giveup("unresolved") /\ UNCHANGED <<unresolved, resolved>>
  /\ UNCHANGED <<template, registry, manifest>>

\* The i-th of a set of services.
Nth(services, i) ==
  CHOOSE s \in services : Cardinality({t \in services : t <= s}) = i

\* The components, in the order of the services they were resolved for. The
\* service itself is not in the manifest; it is kept to state properties.
Press ==
  /\ phase = "resolve"
  /\ unresolved = <<>>
  /\ phase' = "load"
  /\ LET Component(s) ==
           [service |-> s, pkg |-> resolved[s].pkg, version |-> resolved[s].version,
            requires |-> resolved[s].requires]
     IN  manifest' = [manifest EXCEPT !.components =
           [i \in 1 .. Cardinality(DOMAIN resolved) |-> Component(Nth(DOMAIN resolved, i))]]
  /\ UNCHANGED <<template, registry, failure, unresolved, resolved>>

ReleaseNext == ResolvePublic \/ ResolveNext \/ Press

===============================================================================
