-------------------------- MODULE FreeradiusParser --------------------------
(***************************************************************************)
(* ParseFreeradiusDictionary and parseRadiusType of                        *)
(* src/core/freeradius_parser.go, as operators over a set of dictionary    *)
(* files, checked against a reference definition of the dictionary that    *)
(* the grammar of spec section 4.A describes.                              *)
(*                                                                         *)
(* A line is taken after the scanner, TrimSpace, comment stripping and     *)
(* strings.Fields: a record of its directive and its words.  A word that   *)
(* strconv.Atoi rejects is NotANumber; the option word of an ATTRIBUTE is  *)
(* the sequence strings.Split gives.  Comment and blank lines change       *)
(* nothing and are left out.  The state is the content of the files, fixed *)
(* in the initial state; the operators are what is checked.                *)
(***************************************************************************)
EXTENDS Integers, Sequences, SequencesExt, FiniteSets

CONSTANTS
    DictFiles,       \* names of configuration objects holding dictionaries
    Top,             \* the object ParseFreeradiusDictionary is called with
    DictContents,    \* candidate contents: functions DictFiles -> lines
    OctetsPrefixed,  \* the type words that start with "octets" other than it
    MaxDepth,        \* nesting of $INCLUDE at which the goroutine stack is exhausted
    NotANumber       \* a word strconv.Atoi rejects

VARIABLE files

-----------------------------------------------------------------------------
(* Lines                                                                  *)

Include(f) == [dir |-> "$INCLUDE", file |-> f]
Vendor(n, id) == [dir |-> "VENDOR", name |-> n, id |-> id]
BeginVendor(n) == [dir |-> "BEGIN-VENDOR", name |-> n]
EndVendor == [dir |-> "END-VENDOR"]
Attribute(n, c, t, opts) ==
    [dir |-> "ATTRIBUTE", name |-> n, code |-> c, type |-> t, opts |-> opts]
Value(a, e, v) == [dir |-> "VALUE", attr |-> a, enum |-> e, val |-> v]

NoError == "none"
Panic == "panic"

-----------------------------------------------------------------------------
(* parseRadiusType: the codec type of a dictionary type word              *)

ParseRadiusType(t) ==
    CASE t \in {"integer", "byte", "short", "signed", "time_delta"} -> "Integer"
      [] t = "string" -> "String"
      [] t \in {"octets", "abinary", "struct"} -> "Octets"
      [] t = "ipaddr" -> "Address"
      [] t = "date" -> "Time"
      [] t = "ipv6addr" -> "IPv6Address"
      [] t = "ipv6prefix" -> "IPv6Prefix"
      [] t = "ifid" -> "InterfaceId"
      [] t = "integer64" -> "Integer64"
      [] t = "vsa" -> "VSA"
      [] t \in OctetsPrefixed -> "octets"
      [] OTHER -> Panic

-----------------------------------------------------------------------------
(* ParseFreeradiusDictionary, one operator per directive                  *)

NoFlags == [tagged |-> FALSE, encrypted |-> FALSE, salted |-> FALSE,
            withlen |-> FALSE, ok |-> TRUE]

\* Mutant: an unrecognised option is ignored like abinary.
ApplyOptionLenient(fl, o) ==
    CASE o = "has_tag" -> [fl EXCEPT !.tagged = TRUE]
      [] o = "encrypt=1" -> [fl EXCEPT !.encrypted = TRUE]
      [] o = "encrypt=2" -> [fl EXCEPT !.salted = TRUE, !.withlen = TRUE]
      [] o = "encrypt=8" -> [fl EXCEPT !.tagged = TRUE, !.salted = TRUE]
      [] o = "encrypt=9" -> [fl EXCEPT !.salted = TRUE]
      [] OTHER -> fl

\* Mutant: the abinary case dropped from the switch, so it is refused.
ApplyOptionNoAbinary(fl, o) ==
    CASE ~fl.ok -> fl
      [] o = "has_tag" -> [fl EXCEPT !.tagged = TRUE]
      [] o = "encrypt=1" -> [fl EXCEPT !.encrypted = TRUE]
      [] o = "encrypt=2" -> [fl EXCEPT !.salted = TRUE, !.withlen = TRUE]
      [] o = "encrypt=8" -> [fl EXCEPT !.tagged = TRUE, !.salted = TRUE]
      [] o = "encrypt=9" -> [fl EXCEPT !.salted = TRUE]
      [] OTHER -> [fl EXCEPT !.ok = FALSE]

\* One option of the loop over strings.Split(words[4], ","); any other
\* option returns "invalid ATTRIBUTE".
ApplyOption(fl, o) ==
    CASE ~fl.ok -> fl
      [] o = "has_tag" -> [fl EXCEPT !.tagged = TRUE]
      [] o = "encrypt=1" -> [fl EXCEPT !.encrypted = TRUE]
      [] o = "encrypt=2" -> [fl EXCEPT !.salted = TRUE, !.withlen = TRUE]
      [] o = "encrypt=8" -> [fl EXCEPT !.tagged = TRUE, !.salted = TRUE]
      [] o = "encrypt=9" -> [fl EXCEPT !.salted = TRUE]
      [] o = "abinary" -> fl
      [] OTHER -> [fl EXCEPT !.ok = FALSE]

OptionFlags(opts) == FoldLeft(ApplyOption, NoFlags, opts)

\* Each step returns the dictionary, currentVendorAVPsIndex and an error.
Ok(d, cur) == [dict |-> d, cur |-> cur, err |-> NoError]
Fail(d, cur, e) == [dict |-> d, cur |-> cur, err |-> e]

\* VENDOR: a vendor entry and an empty attribute list for it.
AddVendor(d, cur, l) ==
    IF l.id = NotANumber THEN Fail(d, cur, "VENDOR")
    ELSE Ok([vendors |-> Append(d.vendors, [id |-> l.id, name |-> l.name]),
             avps |-> Append(d.avps, [vid |-> l.id, attrs |-> <<>>])], cur)

\* Mutant: the section is taken at the vendor's index in Vendors, which is
\* one short of its list in Avps (the standard list comes first).
StartVendorByVendorIndex(d, cur, l) ==
    LET vi == SelectInSeq(d.vendors, LAMBDA v : v.name = l.name)
        vid == IF vi = 0 THEN 0 ELSE d.vendors[vi].id
    IN IF vid = 0 THEN Fail(d, cur, "BEGIN-VENDOR") ELSE Ok(d, vi)

\* BEGIN-VENDOR: the first vendor of that name, then the first attribute
\* list of its id; a vendor id of 0 counts as not found.
StartVendor(d, cur, l) ==
    LET vi == SelectInSeq(d.vendors, LAMBDA v : v.name = l.name)
        vid == IF vi = 0 THEN 0 ELSE d.vendors[vi].id
    IN IF vid = 0 THEN Fail(d, cur, "BEGIN-VENDOR")
       ELSE Ok(d, SelectInSeq(d.avps, LAMBDA a : a.vid = vid))

\* END-VENDOR: back to the standard attributes.
ResetVendor(cur) == 1

\* ATTRIBUTE: code, options, type, in this order; VSA entries are dropped;
\* the code is stored as byte(code).
AddAttribute(d, cur, l) ==
    LET fl == OptionFlags(l.opts)
        t == ParseRadiusType(l.type)
        avp == [code |-> l.code % 256, name |-> l.name, type |-> t,
                tagged |-> fl.tagged, encrypted |-> fl.encrypted,
                salted |-> fl.salted, withlen |-> fl.withlen,
                enums |-> <<>>]
    IN CASE l.code = NotANumber -> Fail(d, cur, "ATTRIBUTE")
         [] ~fl.ok -> Fail(d, cur, "ATTRIBUTE")
         [] t = Panic -> Fail(d, cur, Panic)
         [] t = "VSA" -> Ok(d, cur)
         [] OTHER -> Ok([d EXCEPT !.avps[cur].attrs = Append(@, avp)], cur)

\* VALUE: the first attribute of that name in the current section only.
AddValue(d, cur, l) ==
    LET attrs == d.avps[cur].attrs
        ai == SelectInSeq(attrs, LAMBDA a : a.name = l.attr)
    IN CASE l.val = NotANumber -> Fail(d, cur, "VALUE")
         [] ai = 0 -> Ok(d, cur)
         [] OTHER ->
              Ok([d EXCEPT !.avps[cur].attrs[ai].enums =
                     [x \in DOMAIN @ \cup {l.enum} |-> IF x = l.enum THEN l.val ELSE @[x]]],
                 cur)

\* The standard attribute list is created when the dictionary has none.
WithStandardList(d) ==
    IF d.avps = <<>> THEN [d EXCEPT !.avps = <<[vid |-> 0, attrs |-> <<>>]>>] ELSE d

RECURSIVE ParseFreeradiusDictionary(_, _, _), ParseLines(_, _, _, _, _)

\* A call on configuration object f; currentVendorAVPsIndex is local to the
\* call.  Past MaxDepth nested calls the stack is exhausted.
ParseFreeradiusDictionary(f, d, depth) ==
    IF depth > MaxDepth THEN [dict |-> d, err |-> "overflow"]
    ELSE ParseLines(f, 1, WithStandardList(d), 1, depth)

\* The scanner loop from line i on; the first error returns.
ParseLines(f, i, d, cur, depth) ==
    IF i > Len(files[f]) THEN [dict |-> d, err |-> NoError]
    ELSE
      LET l == files[f][i]
          r == CASE l.dir = "$INCLUDE" ->
                      LET s == ParseFreeradiusDictionary(l.file, d, depth + 1)
                      IN [dict |-> s.dict, cur |-> cur, err |-> s.err]
                 [] l.dir = "VENDOR" -> AddVendor(d, cur, l)
                 [] l.dir = "BEGIN-VENDOR" -> StartVendor(d, cur, l)
                 [] l.dir = "END-VENDOR" -> Ok(d, ResetVendor(cur))
                 [] l.dir = "ATTRIBUTE" -> AddAttribute(d, cur, l)
                 [] l.dir = "VALUE" -> AddValue(d, cur, l)
                 [] OTHER -> Ok(d, cur)
      IN IF r.err # NoError THEN [dict |-> r.dict, err |-> r.err]
         ELSE ParseLines(f, i + 1, r.dict, r.cur, depth)

Load == ParseFreeradiusDictionary(Top, [vendors |-> <<>>, avps |-> <<>>], 1)

Init == files \in DictContents
Next == UNCHANGED files
Spec == Init /\ [][Next]_files

-----------------------------------------------------------------------------
(* Reference: the dictionary the grammar of spec section 4.A describes    *)

Lines(f) == ToSet(files[f])

RECURSIVE Included(_, _)
Included(S, n) ==
    IF n = 0 THEN S
    ELSE Included(S \cup {l.file : l \in {l \in UNION {Lines(f) : f \in S} :
                                               l.dir = "$INCLUDE"}}, n - 1)

Reached == Included({Top}, Cardinality(DictFiles))

VendorIdOf(n) ==
    CHOOSE id \in {l.id : l \in {l \in UNION {Lines(f) : f \in Reached} :
                                    l.dir = "VENDOR" /\ l.name = n}} : TRUE

\* The vendor of line i of f: the last BEGIN-VENDOR/END-VENDOR before it in
\* the same file.
VendorAt(f, i) ==
    LET B == {j \in 1..(i - 1) : files[f][j].dir \in {"BEGIN-VENDOR", "END-VENDOR"}}
    IN IF B = {} \/ files[f][Max(B)].dir = "END-VENDOR" THEN 0
       ELSE VendorIdOf(files[f][Max(B)].name)

\* Attribute-flag tokens of spec 4.A.
KnownOptions == {"has_tag", "encrypt=1", "encrypt=2", "encrypt=8", "encrypt=9", "abinary"}

RefEntry(f, i) ==
    LET l == files[f][i]
        o == ToSet(l.opts)
    IN [vendor |-> VendorAt(f, i), code |-> l.code, name |-> l.name,
        tagged |-> o \cap {"has_tag", "encrypt=8"} # {},
        encrypted |-> "encrypt=1" \in o,
        salted |-> o \cap {"encrypt=2", "encrypt=8", "encrypt=9"} # {},
        withlen |-> "encrypt=2" \in o]

RefEntries ==
    UNION {{RefEntry(f, i) : i \in {j \in DOMAIN files[f] :
                                       /\ files[f][j].dir = "ATTRIBUTE"
                                       /\ files[f][j].type # "vsa"}} : f \in Reached}

ParsedEntries(d) ==
    UNION {{[vendor |-> d.avps[k].vid, code |-> a.code, name |-> a.name,
      tagged |-> a.tagged, encrypted |-> a.encrypted, salted |-> a.salted,
      withlen |-> a.withlen] : a \in ToSet(d.avps[k].attrs)} : k \in DOMAIN d.avps}

-----------------------------------------------------------------------------
(* Properties                                                             *)

\* A dictionary that loads without error holds exactly the attributes of
\* the grammar: every non-VSA ATTRIBUTE of every file reached through
\* $INCLUDE, under the vendor of its BEGIN-VENDOR section, with the flags
\* of its option tokens, whatever the nesting of includes and sections.
ParsedMatchesReference ==
    LET r == Load IN r.err = NoError => ParsedEntries(r.dict) = RefEntries

\* The grammar of spec 4.A read in order: $INCLUDE stands for the lines of
\* the included file, n levels deep.
RECURSIVE ReadingOrder(_, _)
ReadingOrder(f, n) ==
    IF n = 0 THEN <<>>
    ELSE FlattenSeq([i \in DOMAIN files[f] |->
                       IF files[f][i].dir = "$INCLUDE"
                       THEN ReadingOrder(files[f][i].file, n - 1)
                       ELSE <<files[f][i]>>])

IncludesOf(f) == {l.file : l \in {l \in Lines(f) : l.dir = "$INCLUDE"}}

\* The type words of the FreeRADIUS grammar that name a codec type of spec 3.
TypeWords == {"integer", "byte", "short", "signed", "time_delta", "string",
              "octets", "abinary", "struct", "ipaddr", "date", "ipv6addr",
              "ipv6prefix", "ifid", "integer64", "vsa"} \cup OctetsPrefixed

WellFormed(l) ==
    /\ l.dir = "VENDOR" => l.id # NotANumber
    /\ l.dir = "ATTRIBUTE" => /\ l.code # NotANumber
                              /\ l.type \in TypeWords
                              /\ ToSet(l.opts) \subseteq KnownOptions
    /\ l.dir = "VALUE" => l.val # NotANumber

\* A valid dictionary: no file includes itself through a chain of
\* $INCLUDEs, every reached line is well formed, and every BEGIN-VENDOR
\* names a vendor declared before it in reading order.
ValidDictionary ==
    /\ \A f \in Reached : f \notin Included(IncludesOf(f), Cardinality(DictFiles))
    /\ \A f \in Reached : \A l \in Lines(f) : WellFormed(l)
    /\ LET s == ReadingOrder(Top, Cardinality(DictFiles) + 1)
       IN \A k \in DOMAIN s :
             s[k].dir = "BEGIN-VENDOR" =>
                \E j \in 1..(k - 1) : s[j].dir = "VENDOR" /\ s[j].name = s[k].name

\* The load succeeds exactly on the valid dictionaries: every option loop,
\* type switch, number conversion and vendor lookup of the scanner loop,
\* threaded through the nested ParseFreeradiusDictionary calls of
\* $INCLUDE, fails a dictionary the grammar rejects (unknown flag tokens
\* fail the load, spec 4.A) and accepts every one it describes, whatever
\* the file a vendor is declared in.
LoadSucceedsIffValid == (Load.err = NoError) <=> ValidDictionary

=============================================================================
