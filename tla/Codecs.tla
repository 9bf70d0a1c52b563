------------------------------- MODULE Codecs -------------------------------
(***************************************************************************)
(* The encodings of sizes, numbers, amounts and byte strings: the          *)
(* functions of serialize.h, compressor.cpp, script.h, base58.cpp and      *)
(* utilmoneystr.cpp.  A state is one value of one of them, and every       *)
(* property is about the value and its encoding.  Strings grow byte by     *)
(* byte, and well-formed ones are spoiled in one place.                    *)
(***************************************************************************)
EXTENDS ScriptNum, TLC

CONSTANTS
    MAX_SIZE,
    Group,              \* 128: the values of a byte of a variable-length integer
    COIN, Decimals,     \* COIN is ten to the power of Decimals
    HashSize, Curve,    \* of the scripts of outputs
    MaxSig,             \* 73: the longest signature
    Seeds,              \* the values to begin with, for each codec
    Alphabet, MaxLen    \* what a string may grow by, and to which length

VARIABLES codec, v

vars == <<codec, v>>

CodecAssumption ==
    /\ NumAssumption /\ MAX_SIZE \in Nat /\ Group \in Nat \ {0, 1}
    /\ Decimals >= 2 /\ COIN = 10^Decimals /\ HashSize \in Nat /\ MaxSig \in Nat
    /\ DOMAIN MaxLen = DOMAIN Alphabet

Strings == DOMAIN Alphabet
Templates == {"output", "signature"}

Init == codec \in DOMAIN Seeds /\ v \in Seeds[codec]

Grow(b) ==
    /\ codec \in Strings /\ Len(v) < MaxLen[codec]
    /\ v' = Append(v, b) /\ UNCHANGED codec

\* One byte of a well-formed value is another, or missing at the end.
Spoil ==
    /\ codec \in Templates /\ v \in Seeds[codec]
    /\ \/ \E i \in DOMAIN v, b \in 0 .. Byte - 1 : v' = [v EXCEPT ![i] = b]
       \/ v' = Front(v)
    /\ UNCHANGED codec

Next == Spoil \/ \E b \in IF codec \in Strings THEN Alphabet[codec] ELSE {} : Grow(b)
Spec == Init /\ [][Next]_vars

Fail == <<-1>>

-----------------------------------------------------------------------------
(* Compact sizes: one byte, or one of the three largest as a mark and then  *)
(* 2, 4 or 8 bytes.                                                         *)

Mark == Byte - 3

WriteCompactSize(n) ==
    IF n < Mark THEN <<n>>
    ELSE IF n < Byte^2 THEN <<Mark>> \o Fixed(n, 2)
    ELSE IF n < Byte^4 THEN <<Mark + 1>> \o Fixed(n, 4)
    ELSE <<Mark + 2>> \o Fixed(n, 8)

\* What is read from the start of s: the number and how many bytes it took.
ReadCompactSize(s) ==
    LET size == IF s[1] < Mark THEN 0 ELSE 2^(s[1] - Mark + 1)
        least == IF s[1] = Mark THEN Mark ELSE Byte^(size \div 2)
        n == IF size = 0 THEN s[1] ELSE Unsigned(SubSeq(s, 2, 1 + size))
    IN  IF Len(s) < 1 + size \/ (size > 0 /\ n < least) \/ n > MAX_SIZE THEN Fail
        ELSE <<n, 1 + size>>

-----------------------------------------------------------------------------
(* Variable-length integers: the last byte is below Group, the others have  *)
(* the bit that says so, here Group added to them.                          *)

RECURSIVE VarIntHigh(_)
VarIntHigh(n) ==
    IF n < Group THEN <<Group + n>>
    ELSE Append(VarIntHigh(n \div Group - 1), Group + (n % Group))

WriteVarInt(n) ==
    IF n < Group THEN <<n>> ELSE Append(VarIntHigh(n \div Group - 1), n % Group)

\* A sequence of bytes whose last one, and no other, is below Group.
ReadVarInt(s) ==
    FoldLeft(LAMBDA n, b : n * Group + (b % Group) + (IF b >= Group THEN 1 ELSE 0), 0, s)

IsVarInt(s) == \A i \in DOMAIN s : s[i] < Group <=> i = Len(s)

-----------------------------------------------------------------------------
(* Amounts, with a decimal exponent up to 9.                                *)

RECURSIVE Exponent(_, _)
Exponent(n, e) == IF n % 10 = 0 /\ e < 9 THEN Exponent(n \div 10, e + 1) ELSE e

CompressAmount(n) ==
    LET e == Exponent(n, 0)
        m == n \div 10^e
    IN  IF n = 0 THEN 0
        ELSE IF e < 9 THEN 1 + ((m \div 10) * 9 + (m % 10) - 1) * 10 + e
        ELSE 1 + (m - 1) * 10 + 9

DecompressAmount(x) ==
    LET e == (x - 1) % 10
        y == (x - 1) \div 10
        n == IF e < 9 THEN (y \div 9) * 10 + (y % 9) + 1 ELSE y + 1
    IN  IF x = 0 THEN 0 ELSE n * 10^e

-----------------------------------------------------------------------------
(* Base 58.  A character is its place in the alphabet, a space is Space, and *)
(* any other is Other.                                                       *)

Space == -1
Other == -2

\* "b = b * from + digit" on big-endian digits in base "to"; FALSE if it overflows.
MulAdd(b, from, to, digit) ==
    LET Carry(s, i) ==
            LET c == s.carry + from * b[i]
            IN  [digits |-> <<c % to>> \o s.digits, carry |-> c \div to]
        s == FoldLeft(Carry, [digits |-> <<>>, carry |-> digit],
                      [k \in DOMAIN b |-> Len(b) + 1 - k])
    IN  [fits |-> s.carry = 0, digits |-> s.digits]

Convert(s, from, to, room) ==
    FoldLeft(LAMBDA r, d : LET m == MulAdd(r.digits, from, to, d)
                           IN  [fits |-> r.fits /\ m.fits, digits |-> m.digits],
             [fits |-> TRUE, digits |-> [i \in 1 .. room |-> 0]], s)

Zeroes(s) == CHOOSE n \in 0 .. Len(s) :
    /\ \A i \in 1 .. n : s[i] = 0
    /\ n = Len(s) \/ s[n + 1] # 0
Skip(s, n) == SubSeq(s, n + 1, Len(s))

EncodeBase58(vch) ==
    LET z == Zeroes(vch)
        r == Convert(Skip(vch, z), 256, 58, ((Len(vch) - z) * 138) \div 100 + 1)
    IN  IF ~r.fits THEN Fail
        ELSE SubSeq(vch, 1, z) \o Skip(r.digits, Zeroes(r.digits))

FirstWhere(s, Test(_)) == Min({i \in DOMAIN s : Test(s[i])} \cup {Len(s) + 1})
NotSpace(c) == c # Space
SkipSpaces(s) == Skip(s, FirstWhere(s, NotSpace) - 1)

\* Spaces may stand before and after, and nothing else may.
DecodeBase58(str) ==
    LET s == SkipSpaces(str)
        z == Zeroes(s)
        psz == Skip(s, z)
        n == FirstWhere(psz, LAMBDA c : c = Space) - 1
        r == Convert(SubSeq(psz, 1, n), 58, 256, (Len(psz) * 733) \div 1000 + 1)
    IN  IF \/ Other \in ToSet(SubSeq(psz, 1, n))
           \/ SkipSpaces(Skip(psz, n)) # <<>> \/ ~r.fits
        THEN Fail
        ELSE SubSeq(s, 1, z) \o Skip(r.digits, Zeroes(r.digits))

-----------------------------------------------------------------------------
(* Amounts as text: digits, Point, Minus and Space.                         *)

Point == 10
Minus == 11

RECURSIVE Decimal(_)
Decimal(n) == IF n < 10 THEN <<n>> ELSE Append(Decimal(n \div 10), n % 10)

\* Zeros at the end are dropped, but for two decimals.
FormatMoney(n) ==
    LET abs == IF n < 0 THEN -n ELSE n
        fraction == [i \in 1 .. Decimals |-> (abs \div 10^(Decimals - i)) % 10]
        keep == Max({2} \cup {i \in 1 .. Decimals : fraction[i] # 0})
    IN  (IF n < 0 THEN <<Minus>> ELSE <<>>) \o Decimal(abs \div COIN)
        \o <<Point>> \o SubSeq(fraction, 1, keep)

Value(digits) == FoldLeft(LAMBDA n, d : 10 * n + d, 0, digits)
IsDigit(c) == c \in 0 .. 9

\* The whole part ends at a point or a space; after the point come at most
\* Decimals digits, and after them spaces.
ParseMoney(str) ==
    LET s == SkipSpaces(str)
        w == FirstWhere(s, LAMBDA c : c \in {Point, Space}) - 1
        whole == SubSeq(s, 1, w)
        point == w < Len(s) /\ s[w + 1] = Point
        after == IF point THEN Skip(s, w + 1) ELSE Skip(s, w)
        f == IF point THEN Min({Decimals, FirstWhere(after, LAMBDA c : ~IsDigit(c)) - 1}) ELSE 0
        units == MapThenSumSet(LAMBDA i : after[i] * 10^(Decimals - i), 1 .. f)
        rest == Skip(after, f)
    IN  IF \/ \E i \in DOMAIN whole : ~IsDigit(whole[i])
           \/ \E i \in DOMAIN rest : rest[i] # Space
           \/ w > 10
        THEN Fail
        ELSE <<Value(whole) * COIN + units>>

-----------------------------------------------------------------------------
(* Output scripts in the coin database.  A hash is HashSize bytes, a         *)
(* coordinate of a key one; Curve relates the two coordinates.               *)

OpDup == Byte - 1
OpHash160 == Byte - 2
OpEqual == Byte - 3
OpEqualVerify == Byte - 4
OpCheckSig == Byte - 5
nSpecialScripts == 6

\* The scripts that have a form of their own, by the mark of the form.
KeyIDScript(h) == <<OpDup, OpHash160, HashSize>> \o h \o <<OpEqualVerify, OpCheckSig>>
ScriptIDScript(h) == <<OpHash160, HashSize>> \o h \o <<OpEqual>>
PubKeyScript(key) == <<Len(key)>> \o key \o <<OpCheckSig>>

\* Faulty variant: any two coordinates are a key.
FaultyIsToPubKey(s) ==
    \/ Len(s) = 4 /\ s = PubKeyScript(<<s[2], s[3]>>) /\ s[2] \in {2, 3}
    \/ Len(s) = 5 /\ s = PubKeyScript(<<4, s[3], s[4]>>)

IsToPubKey(s) ==
    \/ Len(s) = 4 /\ s = PubKeyScript(<<s[2], s[3]>>) /\ s[2] \in {2, 3}
    \/ Len(s) = 5 /\ s = PubKeyScript(<<4, s[3], s[4]>>) /\ <<s[3], s[4]>> \in Curve

Hash(s, from) == SubSeq(s, from, from + HashSize - 1)

Compress(s) ==
    IF Len(s) = HashSize + 5 /\ s = KeyIDScript(Hash(s, 4)) THEN <<0>> \o Hash(s, 4)
    ELSE IF Len(s) = HashSize + 3 /\ s = ScriptIDScript(Hash(s, 3)) THEN <<1>> \o Hash(s, 3)
    ELSE IF IsToPubKey(s) THEN <<IF s[2] = 4 THEN 4 + (s[4] % 2) ELSE s[2], s[3]>>
    ELSE Fail

\* The compressed form of a key on the curve has one other half.
Decompress(nSize, in) ==
    IF nSize = 0 THEN KeyIDScript(in)
    ELSE IF nSize = 1 THEN ScriptIDScript(in)
    ELSE IF nSize \in {2, 3} THEN PubKeyScript(<<nSize>> \o in)
    ELSE LET ys == {p[2] : p \in {p \in Curve : p[1] = in[1] /\ p[2] % 2 = nSize % 2}}
         IN  IF ys = {} THEN Fail ELSE PubKeyScript(<<4, in[1], CHOOSE y \in ys : TRUE>>)

SerializeScript(s) ==
    IF Compress(s) # Fail THEN Compress(s) ELSE WriteVarInt(Len(s) + nSpecialScripts) \o s

UnserializeScript(s) ==
    LET n == FirstWhere(s, LAMBDA b : b < Group)
        nSize == ReadVarInt(SubSeq(s, 1, n))
        size == IF nSize < 2 THEN HashSize ELSE IF nSize < nSpecialScripts THEN 1
                ELSE nSize - nSpecialScripts
        in == SubSeq(s, n + 1, n + size)
    IN  IF nSize < nSpecialScripts THEN Decompress(nSize, in) ELSE in

-----------------------------------------------------------------------------
(* Signatures: <30> total <02> length R <02> length S hashtype.             *)

Tag == Byte - 2
IntTag == 2

Positive(n) ==
    /\ n # <<>> /\ n[1] < SignBit
    /\ ~(Len(n) > 1 /\ n[1] = 0 /\ n[2] < SignBit)

IsDERSignature(sig) ==
    LET nLenR == sig[4]
        nLenS == sig[6 + nLenR]
    IN  /\ Len(sig) \in 9 .. MaxSig
        /\ sig[1] = Tag /\ sig[2] = Len(sig) - 3
        /\ 5 + nLenR < Len(sig) /\ nLenR + nLenS + 7 = Len(sig)
        /\ sig[3] = IntTag /\ Positive(SubSeq(sig, 5, 4 + nLenR))
        /\ sig[5 + nLenR] = IntTag /\ Positive(SubSeq(sig, 7 + nLenR, 6 + nLenR + nLenS))

-----------------------------------------------------------------------------
(* Properties.                                                              *)

Codec(c) == codec = c

\* Sizes and numbers: reading is the inverse of writing; ReadCompactSize takes the
\* shortest form only ("non-canonical ReadCompactSize()"), and "Every integer has
\* exactly one encoding" as a VarInt.
SizesOneToOne ==
    /\ Codec("size") =>
        ReadCompactSize(WriteCompactSize(v))
            = IF v <= MAX_SIZE THEN <<v, Len(WriteCompactSize(v))>> ELSE Fail
    /\ Codec("bytes") /\ v # <<>> =>
        /\ LET r == ReadCompactSize(v)
           IN  r # Fail => WriteCompactSize(r[1]) = SubSeq(v, 1, r[2])
        /\ IsVarInt(v) => WriteVarInt(ReadVarInt(v)) = v
    /\ Codec("size") => ReadVarInt(WriteVarInt(v)) = v /\ IsVarInt(WriteVarInt(v))

\* CompressAmount and DecompressAmount are inverse in both directions, so that no
\* two records of the coin database stand for one amount.
AmountsOneToOne ==
    /\ Codec("amount") => DecompressAmount(CompressAmount(v)) = v
    /\ Codec("compressed") => CompressAmount(DecompressAmount(v)) = v

\* The constructor of CScriptNum takes as minimal exactly what serialize writes;
\* a number is false exactly if it is zero, whatever its bytes.
NumbersMinimal ==
    /\ Codec("number") => set_vch(serialize(v)) = v
    /\ Codec("bytes") =>
        /\ IsMinimal(v) <=> serialize(set_vch(v)) = v
        /\ CastToBool(v) <=> set_vch(v) # 0

\* What is pushed is what is read back, by PushData and push_int64, and both pass
\* CheckMinimalPush, which takes the shortest way to push some data and no other.
PushesMinimal ==
    /\ Codec("data") =>
        LET g == GetOp(PushData(v))
        IN  g.ok /\ Pushed(g) = v /\ g.rest = <<>>
    /\ Codec("number") =>
        LET g == GetOp(push_int64(v))
        IN  g.ok /\ set_vch(Pushed(g)) = v /\ CheckMinimalPush(Pushed(g), g.opcode)
    /\ Codec("script") =>
        LET g == GetOp(v)
        IN  g.ok /\ g.rest = <<>> /\ g.opcode <= OP_1 + MaxSmall - 1 /\ g.opcode # OP_1 - 1 =>
            CheckMinimalPush(Pushed(g), g.opcode)
            <=> v = IF \E n \in -1 .. MaxSmall : serialize(n) = Pushed(g)
                    THEN push_int64(set_vch(Pushed(g))) ELSE PushData(Pushed(g))

\* Scripts come back from the coin database as they went in.
ScriptsRestored == Codec("output") => UnserializeScript(SerializeScript(v)) = v

\* IsDERSignature takes exactly the signatures made of two positive numbers in
\* their shortest form, signed and big-endian, and a byte for the hash type.
SignaturesCanonical ==
    LET Number(n) == IF n = 0 THEN <<0>> ELSE Reverse(serialize(n))
    IN  Codec("signature") =>
        IsDERSignature(v) <=>
            \E i \in 5 .. Len(v) - 3 :
                LET R == SubSeq(v, 5, i)
                    S == SubSeq(v, i + 3, Len(v) - 1)
                IN  /\ Len(v) <= MaxSig
                    /\ R = Number(Unsigned(Reverse(R))) /\ S = Number(Unsigned(Reverse(S)))
                    /\ v = <<Tag, Len(R) + Len(S) + 4, IntTag, Len(R)>> \o R
                            \o <<IntTag, Len(S)>> \o S \o <<Last(v)>>

\* Base 58 text decodes to the bytes it encodes and back, but for spaces before and
\* after it, and is refused only for a character that has no place in it; the
\* estimates of its room suffice (assert(carry == 0)).
Base58RoundTrip ==
    /\ Codec("raw") => EncodeBase58(v) # Fail /\ DecodeBase58(EncodeBase58(v)) = v
    /\ Codec("text") =>
        IF \/ Other \in ToSet(v)
           \/ \E i, j, k \in DOMAIN v :
                i < j /\ j < k /\ v[i] # Space /\ v[j] = Space /\ v[k] # Space
        THEN DecodeBase58(v) = Fail
        ELSE DecodeBase58(v) # Fail /\ EncodeBase58(DecodeBase58(v)) = SelectSeq(v, NotSpace)

\* ParseMoney takes spaces, at most ten digits, a point and at most Decimals digits,
\* each part of which may be missing, and spaces; FormatMoney writes what it reads,
\* and negative amounts cannot be read.
MoneyRoundTrip ==
    /\ Codec("money") =>
        ParseMoney(FormatMoney(v)) = IF v < 0 THEN Fail ELSE <<v>>
    /\ Codec("cash") =>
        LET Spaces(s) == \A i \in DOMAIN s : s[i] = Space
            Digital(s) == \A i \in DOMAIN s : IsDigit(s[i])
            Amount(w, f) == Value(w) * COIN + Value(f) * 10^(Decimals - Len(f))
            readings ==
                {p \in (0 .. Len(v)) \X (0 .. Len(v)) \X (0 .. Len(v)) :
                    LET whole == SubSeq(v, p[1] + 1, p[2])
                        point == p[2] < p[3] /\ v[p[2] + 1] = Point
                        fraction == SubSeq(v, p[2] + 2, p[3])
                    IN  /\ p[1] <= p[2] /\ p[2] <= p[3]
                        /\ Spaces(SubSeq(v, 1, p[1])) /\ Digital(whole) /\ Len(whole) <= 10
                        /\ p[2] = p[3] \/ (point /\ Digital(fraction) /\ Len(fraction) <= Decimals)
                        /\ Spaces(Skip(v, p[3]))}
        IN  IF readings = {} THEN ParseMoney(v) = Fail
            ELSE \A p \in readings :
                    ParseMoney(v) = <<Amount(SubSeq(v, p[1] + 1, p[2]), SubSeq(v, p[2] + 2, p[3]))>>
=============================================================================
