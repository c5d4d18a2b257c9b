------------------------------ MODULE Metadata ------------------------------
(***************************************************************************)
(* The metadata program (himsha-programs/nft-metadata).  It asks nobody to *)
(* sign: whoever names the authority's key acts for it.  A record is as    *)
(* good as not made while its name is empty.  The mint, the symbol and the *)
(* royalty are left out; the name stands for all that Update changes.      *)
(***************************************************************************)
EXTENDS Integers, FiniteSets

CONSTANTS MetaKeys, Authorities, Creators,
          Names      \* display names; the empty one may be among them

EmptyName == ""

VARIABLE meta        \* by key: nothing, or the record

NoMetadata == [made |-> FALSE]
MetadataRecord(authority, name, creators) ==
  [made |-> TRUE, update_authority |-> authority, name |-> name, creators |-> creators,
   verified |-> {}, is_mutable |-> TRUE]

MetadataInit == meta = [k \in MetaKeys |-> NoMetadata]

CreateMetadata_Mutant(k, authority, name, creators) ==
  /\ meta[k].made => meta[k].name = EmptyName \/ ~meta[k].is_mutable
  /\ meta' = [meta EXCEPT ![k] = MetadataRecord(authority, name, creators)]

\* Creators whose shares do not add up are refused.
CreateMetadata(k, authority, name, creators) ==
  /\ meta[k].made => meta[k].name = EmptyName
  /\ meta' = [meta EXCEPT ![k] = MetadataRecord(authority, name, creators)]

UpdateMetadata(k, authority, name) ==
  /\ meta[k].made /\ meta[k].is_mutable /\ authority = meta[k].update_authority
  /\ meta' = [meta EXCEPT ![k].name = name]

\* A creator's entry can be verified in an immutable record as well.
VerifyCreator(k, creator) ==
  /\ meta[k].made
  /\ meta' = [meta EXCEPT ![k].verified = @ \cup ({creator} \cap meta[k].creators)]

MakeImmutable(k, authority) ==
  /\ meta[k].made /\ authority = meta[k].update_authority
  /\ meta' = [meta EXCEPT ![k].is_mutable = FALSE]

MetadataNext ==
  \E k \in MetaKeys, a \in Authorities :
    \/ \E name \in Names, creators \in SUBSET Creators : CreateMetadata(k, a, name, creators)
    \/ \E name \in Names : UpdateMetadata(k, a, name)
    \/ MakeImmutable(k, a)
    \/ \E c \in Creators : VerifyCreator(k, c)

-----------------------------------------------------------------------------
\* "Freeze: make metadata immutable": no sequence of instructions changes a frozen
\* record or who may change it, except for the verification of its creators;
\* unless it was frozen with an empty name, when Create makes it anew.
FrozenStays ==
  [][\A k \in MetaKeys :
       meta[k].made /\ ~meta[k].is_mutable /\ meta[k].name # EmptyName
         => meta'[k] = [meta[k] EXCEPT !.verified = meta'[k].verified]]_meta
=============================================================================
