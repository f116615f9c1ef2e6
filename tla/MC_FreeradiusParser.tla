------------------------ MODULE MC_FreeradiusParser ------------------------
EXTENDS FreeradiusParser

CONSTANTS f1, f2, NaN

MCFiles == {f1, f2}

\* Lines of the top dictionary: every directive, each error path of each,
\* a section that is closed, a self-include and an include of f2.
TopLines ==
    { Include(f1), Include(f2),
      Vendor("v1", 9), Vendor("v2", NaN),
      BeginVendor("v1"), BeginVendor("v3"), EndVendor,
      [dir |-> "BEGIN-PROTOCOL"],
      Attribute("a", 1, "integer", <<>>),
      Attribute("b", 2, "string", <<"has_tag", "encrypt=2">>),
      Attribute("c", 3, "octets", <<"encrypt=9", "bogus">>),
      Attribute("d", 4, "vsa", <<>>),
      Attribute("e", NaN, "integer", <<>>),
      Attribute("g", 6, "widget", <<"encrypt=1">>),
      Value("a", "x", 7), Value("a", "y", NaN) }

\* Lines of the included dictionary.
IncludedLines ==
    { Include(f1), BeginVendor("v1"), EndVendor,
      Attribute("a", 5, "ipaddr", <<"encrypt=8">>),
      Attribute("h", 7, "integer", <<"abinary">>),
      Value("a", "z", 8) }

MCDictContents ==
    {(f1 :> t) @@ (f2 :> i) : t \in SeqOf(TopLines, 3), i \in SeqOf(IncludedLines, 2)}

MCOctetsPrefixed == {"octets[16]"}
============================================================================
