------------------------ MODULE DescriptorAttributes ------------------------
(***************************************************************************)
(* The attributes a descriptor asks of its consumers, and the one change   *)
(* that packages/catalog-process (services/catalogService.ts) allows once  *)
(* the descriptor is offered: updateDescriptorAttributes.                  *)
(*                                                                         *)
(* Of each kind a descriptor has a sequence of groups; a tenant satisfies  *)
(* it with one attribute of every group.                                   *)
(***************************************************************************)
EXTENDS Naturals, Sequences

CONSTANTS
  Attributes,
  Kinds,       \* certified, verified, declared
  MaxGroups    \* bound on the groups of a kind

ASSUME MaxGroupsAssumption == MaxGroups \in Nat

VARIABLES
  descriptorState,   \* draft, or the descriptor's state once it is offered
  attributes         \* kind -> its groups

attributesVars == <<descriptorState, attributes>>

Groups == UNION {[1..n -> SUBSET Attributes] : n \in 0..MaxGroups}

-----------------------------------------------------------------------------
(* validateAndRetrieveNewAttributes: `old` are the groups of a kind. *)

\* Slip: one common attribute is enough.
Meets(seedGroup, group) == group = {} \/ group \cap seedGroup # {}

Covers(seedGroup, group) == group \subseteq seedGroup

\* The first of the seed's groups that contains the group (a singleton, or empty).
SupersetSeed(group, seed) ==
  {i \in DOMAIN seed : /\ Covers(seed[i], group)
                       /\ \A j \in 1..(i - 1) : ~Covers(seed[j], group)}

\* Slip: only what no group has had is new.
NewInAllGroups(old, seed) ==
  UNION {seed[i] : i \in DOMAIN seed} \ UNION {old[g] : g \in DOMAIN old}

NewAttributes(old, seed) ==
  UNION {UNION {seed[i] \ old[g] : i \in SupersetSeed(old[g], seed)} : g \in DOMAIN old}

Accepted(old, seed) ==
  /\ Len(old) = Len(seed)
  /\ \A g \in DOMAIN old : SupersetSeed(old[g], seed) # {}

-----------------------------------------------------------------------------
\* updateDraftDescriptor takes any attributes that exist.
UpdateDraftAttributes ==
  /\ descriptorState = "draft"
  /\ attributes' \in [Kinds -> Groups]
  /\ UNCHANGED descriptorState

\* publishDescriptor, approveDelegatedEServiceDescriptor
Publish ==
  /\ descriptorState = "draft"
  /\ descriptorState' = "published"
  /\ UNCHANGED attributes

\* suspendDescriptor, activateDescriptor
SuspendOrActivate ==
  /\ descriptorState # "draft"
  /\ descriptorState' = IF descriptorState = "published" THEN "suspended" ELSE "published"
  /\ UNCHANGED attributes

UpdateDescriptorAttributes(seed) ==
  /\ descriptorState \in {"published", "suspended"}
  /\ \A k \in Kinds : Accepted(attributes[k], seed[k])
  /\ \E k \in Kinds : NewAttributes(attributes[k], seed[k]) # {}
  /\ attributes' = seed
  /\ UNCHANGED descriptorState

AttributesInit == descriptorState = "draft" /\ attributes \in [Kinds -> Groups]

AttributesNext ==
  \/ UpdateDraftAttributes \/ Publish \/ SuspendOrActivate
  \/ \E seed \in [Kinds -> Groups] : UpdateDescriptorAttributes(seed)

AttributesSpec == AttributesInit /\ [][AttributesNext]_attributesVars

-----------------------------------------------------------------------------
\* One bijection takes every group to one that contains it.
Extends(old, seed) ==
  /\ Len(old) = Len(seed)
  /\ \E p \in [DOMAIN old -> DOMAIN seed] :
       /\ \A g, h \in DOMAIN old : p[g] = p[h] => g = h
       /\ \A g \in DOMAIN old : old[g] \subseteq seed[p[g]]

SameGroups(old, seed) == Extends(old, seed) /\ Extends(seed, old)

Distinct(groups) == \A g, h \in DOMAIN groups : groups[g] = groups[h] => g = h

AttributesTypeOK ==
  /\ descriptorState \in {"draft", "published", "suspended"}
  /\ attributes \in [Kinds -> Groups]

(* What the consumers of an offered descriptor rely on: every group they had *)
(* to satisfy is still there, possibly wider, and there are no more groups.  *)
GroupsKept ==
  [][descriptorState # "draft" =>
       \A k \in Kinds : /\ Len(attributes'[k]) = Len(attributes[k])
                        /\ \A g \in DOMAIN attributes[k] : \E i \in DOMAIN attributes'[k] :
                             attributes[k][g] \subseteq attributes'[k][i]]_attributesVars

(* A producer may always widen groups, in any order: the search for the first *)
(* superset rejects no extension of groups that differ, be it with "superset  *)
(* missing" or as "unchanged".                                               *)
ExtensionsAccepted ==
  \A k \in Kinds, seed \in Groups :
    Extends(attributes[k], seed) =>
      /\ Accepted(attributes[k], seed)
      /\ Distinct(attributes[k]) /\ ~SameGroups(attributes[k], seed) =>
           NewAttributes(attributes[k], seed) # {}

(* "each attribute group contained in the seed must be a superset of the     *)
(* corresponding attribute group in the descriptor", so a group that nobody  *)
(* had to satisfy before cannot be asked of the consumers of an offered      *)
(* descriptor.                                                               *)
SeedExtends ==
  [][descriptorState # "draft" => \A k \in Kinds : Extends(attributes[k], attributes'[k])]_attributesVars
=============================================================================
