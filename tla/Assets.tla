------------------------------- MODULE Assets -------------------------------
(***************************************************************************)
(* The runes and the metadata programs side by side: each writes only the  *)
(* accounts it owns (see Invocation), so their steps interleave.           *)
(***************************************************************************)
EXTENDS Runes, Metadata

assetsVars == <<held, recast, relabelled, hidden, meta>>

AssetsInit == RunesInit /\ MetadataInit

AssetsNext ==
  \/ RunesNext /\ UNCHANGED meta
  \/ MetadataNext /\ UNCHANGED runeVars

AssetsSpec == AssetsInit /\ [][AssetsNext]_assetsVars
=============================================================================
