----------------------------- MODULE Threshold -----------------------------
(***************************************************************************)
(* Signing by a committee (himsha-threshold): M of N signers make one      *)
(* signature.  The FROST library is external: the shares of threshold      *)
(* different signers aggregate if all are good, and if some are bad it     *)
(* names one signer whose share is.  Keys and nonces are left out.         *)
(***************************************************************************)
EXTENDS Integers, Sequences, SequencesExt

CONSTANTS Total,      \* N
          THRESHOLD   \* M

\* parse_spec
ASSUME ThresholdAssumption == Total \in Nat /\ THRESHOLD \in 1 .. Total

\* generate, generate_dkg: the signers that hold a key share.
signer_ids == [i \in 1 .. Total |-> i]

take(s, n) == SubSeq(s, 1, IF n <= Len(s) THEN n ELSE Len(s))

\* Two signers of one name give one commitment.
EnoughCommitments(quorum) == Cardinality(ToSet(quorum)) >= THRESHOLD

\* With everybody honest.
sign(signers) ==
  IF Len(signers) < THRESHOLD THEN "NotEnoughSigners"
  ELSE IF ~(ToSet(signers) \subseteq ToSet(signer_ids)) THEN "UnknownSigner"
  ELSE IF ~EnoughCommitments(signers) THEN "Frost"
  ELSE "signature"

\* What of s is in S, in order.
filter(s, S) ==
  LET kept[i \in 0 .. Len(s)] ==
        IF i = 0 THEN << >>
        ELSE IF s[i] \in S THEN Append(kept[i - 1], s[i]) ELSE kept[i - 1]
  IN kept[Len(s)]

quorum_of(candidates) == take(candidates, THRESHOLD)

retain_Mutant(candidates, bad) == Tail(candidates)

\* The named signer is dropped.
retain(candidates, bad) == filter(candidates, ToSet(candidates) \ {bad})

\* The rounds: a quorum of the first candidates signs; a signer that is named is
\* dropped and the round repeated.  All ways to end: the result, and who was dropped.
Rounds(disruptive) ==
  LET outcomes[candidates \in Seq(Nat)] ==
        LET quorum == quorum_of(candidates)
            bad == ToSet(quorum) \cap disruptive
        IN IF Len(candidates) < THRESHOLD THEN {[result |-> "RobustExhausted", excluded |-> {}]}
           ELSE IF ~EnoughCommitments(quorum) THEN {[result |-> "Frost", excluded |-> {}]}
           ELSE IF bad = {} THEN {[result |-> "signature", excluded |-> {}]}
           ELSE UNION {{[o EXCEPT !.excluded = @ \cup {b}] : o \in outcomes[retain(candidates, b)]} :
                        b \in bad}
  IN outcomes

\* Candidates without a share of the key are passed over.
sign_robust(online, disruptive) ==
  Rounds(disruptive)[filter(online, ToSet(signer_ids))]
=============================================================================
