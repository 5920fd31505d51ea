-------------------------------- MODULE PEM --------------------------------
(***************************************************************************)
(* PEM texts and the functions the controller applies to them.             *)
(*                                                                         *)
(* A text is a sequence of blocks.  A block is glued when its BEGIN line    *)
(* follows the previous END line without a newline, and a text is open     *)
(* when its last line has no newline.  A certificate's DER bytes are        *)
(* an element of Cert, and Signer says whose key verifies its signature.   *)
(***************************************************************************)
EXTENDS Naturals, Sequences, SequencesExt, FiniteSetsExt

CONSTANTS
    Cert,       \* certificates
    Signer,     \* the certificate each of them was signed with
    Malformed,  \* CERTIFICATE blocks that do not parse
    Key,        \* private keys
    KnownRoots  \* roots.go:17-42

ASSUME PEMConstants ==
    /\ Signer \in [Cert -> Cert]
    /\ KnownRoots \subseteq Cert
    /\ \A r \in KnownRoots : Signer[r] = r
    /\ Cert \cap Malformed = {} /\ (Cert \cup Malformed) \cap Key = {}
    /\ "binary" \notin Cert \cup Malformed \cup Key

Binary == "binary"   \* bytes that are no PEM

Block == [der : Cert \cup Malformed \cup Key \cup {Binary}, glued : BOOLEAN]
Text  == {t \in [blocks : Seq(Block), open : BOOLEAN] : t.blocks = <<>> => ~t.open}

IsCert(b)  == b.der \in Cert \cup Malformed   \* block.Type = "CERTIFICATE"
Parses(b)  == b.der \in Cert                  \* x509.ParseCertificate succeeds
IsKey(b)   == b.der \in Key
IsBlock(b) == b.der # Binary

SelfSigned(c) == Signer[c] = c

Ders(bs)   == {bs[i].der : i \in DOMAIN bs}
CertsOf(t) == Ders(t.blocks) \cap (Cert \cup Malformed)

----------------------------------------------------------------------------
(* Selections from a sequence. *)

\* The numbers in I, in ascending order.
Ascending(I) ==
    [k \in 1 .. Cardinality(I) |->
        CHOOSE i \in I : Cardinality({j \in I : j <= i}) = k]

\* The elements of s at the positions I.
Pick(s, I) == LET at == Ascending(I) IN [k \in 1 .. Cardinality(I) |-> s[at[k]]]

Select(s, Test(_)) == Pick(s, {i \in DOMAIN s : Test(s[i])})

----------------------------------------------------------------------------
(* The bytes of a text. *)

Empty == [blocks |-> <<>>, open |-> FALSE]

\* append(t, u...): u's first BEGIN lands on t's last line if that is open.
Concat(t, u) ==
    IF t = Empty THEN u
    ELSE IF u = Empty THEN t
    ELSE [blocks |-> t.blocks \o <<[Head(u.blocks) EXCEPT !.glued = t.open]>>
                              \o Tail(u.blocks),
          open   |-> u.open]

\* pem.EncodeToMemory, block after block.
Encode(bs) == [blocks |-> [i \in DOMAIN bs |-> [bs[i] EXCEPT !.glued = FALSE]],
               open   |-> FALSE]

\* pem.Decode until it returns nil.  A BEGIN counts at the start of a line, an END
\* when its line ends with it: a glued boundary costs the blocks on both sides.
Decode(t) ==
    Pick(t.blocks, {i \in DOMAIN t.blocks :
                       /\ IsBlock(t.blocks[i])
                       /\ \A j \in DOMAIN t.blocks : j \in {i, i + 1} => ~t.blocks[j].glued})

\* Without the blocks whose bytes came before.
Dedup(bs) ==
    Pick(bs, {i \in DOMAIN bs : \A j \in DOMAIN bs : j < i => bs[j].der # bs[i].der})

Certs(t)  == Select(Decode(t), IsCert)
Parsed(t) == Select(Decode(t), Parses)

----------------------------------------------------------------------------
(* The code's functions. *)

\* "----------BEGIN" becomes two lines.
Unglue(t) == [t EXCEPT !.blocks = [i \in DOMAIN @ |-> [@[i] EXCEPT !.glued = FALSE]]]

\* Mutants: a mash is not repaired; repeated blocks are kept.
NormalizeMashed(t) ==
    LET kept == Dedup(Decode(t)) IN IF kept = <<>> THEN t ELSE Encode(kept)
NormalizeRepeats(t) ==
    LET kept == Decode(Unglue(t)) IN IF kept = <<>> THEN Unglue(t) ELSE Encode(kept)

NormalizePEM(t) ==
    LET kept == Dedup(Decode(Unglue(t))) IN IF kept = <<>> THEN Unglue(t) ELSE Encode(kept)

\* cur.CheckSignatureFrom(next) along the path.
IsPath(certs) ==
    \A i \in 1 .. Len(certs) - 1 : Signer[certs[i].der] = certs[i + 1].der

VerifyChain(leaf, chain) ==
    chain # Empty =>
        /\ Decode(leaf) # <<>> /\ Parses(Decode(leaf)[1])
        /\ Decode(chain) # <<>> /\ \A i \in DOMAIN Decode(chain) : Parses(Decode(chain)[i])
        /\ IsPath(<<Decode(leaf)[1]>> \o Decode(chain))

\* Mutant: any known root will do.
CompleteAnyChain(t) ==
    IF Parsed(t) = <<>> \/ KnownRoots = {} \/ SelfSigned(Last(Parsed(t)).der) THEN t
    ELSE NormalizePEM(Concat(t, Encode(<<[der   |-> CHOOSE r \in KnownRoots : TRUE,
                                          glued |-> FALSE]>>)))

CompleteChain(t) ==
    LET top == Last(Parsed(t)).der
    IN  IF Parsed(t) = <<>> \/ SelfSigned(top) \/ Signer[top] \notin KnownRoots THEN t
        ELSE NormalizePEM(Concat(t, Encode(<<[der |-> Signer[top], glued |-> FALSE]>>)))

SplitLeafAndChain(t) ==
    LET certs == Certs(t)
    IN  IF certs = <<>> THEN [leaf |-> Empty, chain |-> Empty]
        ELSE [leaf |-> Encode(<<Head(certs)>>), chain |-> Encode(Tail(certs))]

\* Mutant: what does not parse goes into the keystore too.
ParseChainCerts(t) == Dedup(Certs(t))

\* The certificates of a keystore's chain; none of them parsing is an error.
ParseChainDER(t) == Dedup(Parsed(t))
ParseChainFails(t) == t # Empty /\ ParseChainDER(t) = <<>>

\* Mutant: the leaf is classified like the others.
ComposeAll(t) ==
    LET later == {Parsed(t)[i].der : i \in 1 .. Len(Parsed(t))}
    IN  {"leaf" : c \in later}
            \cup {IF SelfSigned(c) THEN "root" ELSE "intermediate" : c \in later}

ChainComposition(t) ==
    LET later == {Parsed(t)[i].der : i \in 2 .. Len(Parsed(t))}
    IN  {"leaf" : i \in DOMAIN Parsed(t)}
            \cup {IF SelfSigned(c) THEN "root" ELSE "intermediate" : c \in later}

\* The last key block wins.
SplitPEM(blob) ==
    [cert |-> Encode(Certs(blob)),
     key  |-> LET keys == Select(Decode(blob), IsKey)
              IN  IF keys = <<>> THEN Empty ELSE Encode(<<Last(keys)>>)]

=============================================================================
