-------------------------------- MODULE Rsn --------------------------------
(***************************************************************************)
(* internal/hiscores/rsn.go: three notions of "the same name".  A name is  *)
(* a sequence of runes, of which only the class counts: "A" and "a" for a  *)
(* letter in its two cases, " " and "nbsp" for white space, "_", "-" and   *)
(* "#" for themselves (the last for whatever no name contains).            *)
(***************************************************************************)
EXTENDS Integers, SequencesExt

CONSTANTS MaxRsn,  (* the longest name the game knows (12)                 *)
          MaxLen   (* bound: the longest name that is typed                *)

ASSUME LengthAssumption == MaxRsn \in Nat /\ MaxLen \in Nat

Rune == {"A", "a", " ", "nbsp", "_", "-", "#"}
Space == {" ", "nbsp"}

(* Names as they come from the Site.                                       *)
Names == UNION {[1..n -> Rune] : n \in 0..MaxLen}

-----------------------------------------------------------------------------
(* The loop both functions share: a run of separators becomes one space.   *)
Collapse(s, Sep) ==
    FoldLeft(LAMBDA b, r : IF r \notin Sep THEN Append(b, r)
                           ELSE IF b # <<>> /\ Last(b) = " " THEN b
                           ELSE Append(b, " "), <<>>, s)

(* strings.TrimSpace.                                                      *)
TrimSpace(s) ==
    LET kept == {n \in DOMAIN s : s[n] \notin Space}
    IN  IF kept = {} THEN <<>> ELSE SubSeq(s, Min(kept), Max(kept))

ToLower(s) == [n \in DOMAIN s |-> IF s[n] = "A" THEN "a" ELSE s[n]]

SanitizeRsn(s) == TrimSpace(Collapse(s, Space))

(* Mutant of NormalizeRsn: trimmed before the underscores are spaces.      *)
NormalizeEarlyTrim(s) == Collapse(ToLower(TrimSpace(s)), Space \cup {"_"})

NormalizeRsn(s) == TrimSpace(Collapse(ToLower(TrimSpace(s)), Space \cup {"_"}))

IsPlausibleRsn(s) == Len(s) \in 1..MaxRsn /\ ToSet(s) \subseteq {"A", "a", " ", "_", "-"}

(* What Fetch asks the hiscores for; nothing if the name is implausible.   *)
Lookup(s) == IF IsPlausibleRsn(SanitizeRsn(s)) THEN SanitizeRsn(s) ELSE <<>>

-----------------------------------------------------------------------------
(* Properties.                                                             *)

(* A name as its runes without the separators, each with whether separators*)
(* part it from the one before.                                            *)
Parts(s, Sep) ==
    LET kept == SetToSortSeq({n \in DOMAIN s : s[n] \notin Sep}, <)
    IN  [k \in DOMAIN kept |-> <<s[kept[k]], k > 1 /\ kept[k] > kept[k - 1] + 1>>]
Tight(s, Sep) == \A n \in DOMAIN s : s[n] \in Sep =>
                    s[n] = " " /\ n \notin {1, Len(s)} /\ s[n + 1] \notin Sep

(* "Collapse any Unicode whitespace to a single ASCII space and trim the   *)
(* edges, preserving casing": the words stay, and nothing else does.       *)
WordsKept ==
    \A rsn \in Names : /\ Parts(SanitizeRsn(rsn), Space) = Parts(rsn, Space)
                       /\ Tight(SanitizeRsn(rsn), Space)

(* Identity keys are stored: the key of a key, of a name that was cleaned  *)
(* for display and of a name with the words in the other case and other    *)
(* separators is the same key, and no other name has it.                   *)
OneKey ==
    \A rsn \in Names :
        /\ NormalizeRsn(NormalizeRsn(rsn)) = NormalizeRsn(rsn)
        /\ NormalizeRsn(SanitizeRsn(rsn)) = NormalizeRsn(rsn)
        /\ Parts(NormalizeRsn(rsn), {" "}) = Parts(ToLower(rsn), Space \cup {"_"})
        /\ Tight(NormalizeRsn(rsn), Space \cup {"_"})
=============================================================================
