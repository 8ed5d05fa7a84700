------------------------------ MODULE MCLoader ------------------------------
(***************************************************************************)
(* Programs for Loader.  A page is four units.  Addresses of symbols are   *)
(* even, words to relocate stand at odd ones or in objects.                *)
(***************************************************************************)
EXTENDS Loader

Func(name, value, bind) ==
    [name |-> name, value |-> value, size |-> 1, bind |-> bind, type |-> "func",
     defined |-> TRUE, version |-> 1, hidden |-> FALSE]
Object(name, value) == [Func(name, value, "strong") EXCEPT !.type = "object"]
Wants(name, bind) == [Func(name, 0, bind) EXCEPT !.defined = FALSE, !.version = 0]
\* A definition in a version (the index in versions), a reference to one (the
\* index in wants).
InVersion(s, version) == [s EXCEPT !.version = version]
Hidden(s) == [s EXCEPT !.hidden = TRUE]

Reloc(type, sym, offset) == [type |-> type, sym |-> sym, offset |-> offset, addend |-> 0]
Want(file, version, other, isWeak) ==
    [file |-> file, version |-> version, other |-> other, weak |-> isWeak]

NoData == [o \in {} |-> 0]
Plain == [needed |-> << >>, size |-> 4, data |-> NoData, symbols |-> << >>,
          relocs |-> << >>, inits |-> << >>, finis |-> << >>, versions |-> << >>,
          wants |-> << >>]
Program(files) == [files |-> files, memsize |-> 36, entry |-> 1, end |-> 7,
                   dynamic |-> TRUE, interpreter |-> "ld"]

\* Without libraries: only the memory map.
Static == [Program([o \in {"root"} |-> Plain]) EXCEPT
              !.dynamic = FALSE, !.memsize = 24, !.end = 3]

\* A cycle, a diamond, two paths to one library; weak definitions before and
\* behind strong ones; an object the program has its own copy of, which holds a
\* relocated pointer; the interpreter among the libraries.
Interposed == Program([o \in {"root", "a", "b", "ld"} |->
    CASE o = "root" -> [Plain EXCEPT
            !.needed = <<"a", "b">>, !.size = 7,
            !.symbols = <<Wants("f", "strong"), Object("v", 4), Wants("gone", "weak"),
                          Func("h", 2, "weak")>>,
            !.relocs = <<Reloc("abs", 1, 3), Reloc("copy", 2, 4), Reloc("abs", 4, 5),
                         Reloc("abs", 3, 6)>>,
            !.inits = <<2>>, !.finis = <<2>>]
      [] o = "a" -> [Plain EXCEPT
            !.needed = <<"/usr/b", "ld">>, !.size = 7, !.data = [x \in {4} |-> 2],
            !.symbols = <<Func("f", 2, "strong"), Object("v", 4), Func("h", 6, "strong"),
                          Wants("k", "strong")>>,
            !.relocs = <<Reloc("relative", 0, 4), Reloc("abs", 2, 1), Reloc("rel", 4, 5)>>,
            !.inits = <<2, 6>>, !.finis = <<6>>]
      [] o = "b" -> [Plain EXCEPT
            !.needed = <<"/lib/a">>,
            !.symbols = <<Func("f", 2, "weak"), Func("k", 2, "weak"), Wants("v", "strong"),
                          Wants("h", "strong")>>,
            !.relocs = <<Reloc("abs", 3, 1), Reloc("abs", 4, 3)>>,
            !.inits = <<2>>]
      [] o = "ld" -> [Plain EXCEPT
            !.symbols = <<Func("k", 2, "strong")>>, !.inits = <<2>>, !.finis = <<2>>]])

\* Two versions of one function, of which the program asks for the second and
\* a library without versions takes the first; a function in a later version
\* only, and one that is hidden; no initialisers.
Versioned == Program([o \in {"root", "a"} |->
    CASE o = "root" -> [Plain EXCEPT
            !.needed = <<"a">>, !.size = 7,
            !.wants = <<Want("a", "V2", 4, FALSE), Want("a", "V7", 5, TRUE)>>,
            !.symbols = <<InVersion(Wants("f", "strong"), 4), Wants("g", "strong"),
                          Wants("m", "strong")>>,
            !.relocs = <<Reloc("abs", 1, 3), Reloc("abs", 2, 5), Reloc("abs", 3, 6)>>]
      [] o = "a" -> [Plain EXCEPT
            !.size = 8, !.versions = <<"base", "V1", "V2">>,
            !.symbols = <<InVersion(Func("f", 2, "strong"), 2),
                          InVersion(Func("f", 4, "strong"), 3),
                          InVersion(Func("g", 6, "strong"), 3),
                          Hidden(InVersion(Func("m", 6, "strong"), 2)),
                          InVersion(Func("m", 4, "weak"), 1)>>,
            !.finis = <<2>>]])

\* A library that asks for the first version of the function.
Asks == [Plain EXCEPT
            !.wants = <<Want("a", "V1", 4, FALSE)>>,
            !.symbols = <<InVersion(Wants("f", "strong"), 4)>>,
            !.relocs = <<Reloc("abs", 1, 3)>>]

\* The program asks for the second.
Mixed == [Versioned EXCEPT !.memsize = 32, !.files =
    [o \in {"root", "a", "b"} |->
        CASE o = "root" -> [Versioned.files["root"] EXCEPT !.needed = <<"a", "b">>]
          [] o = "a" -> Versioned.files["a"]
          [] o = "b" -> Asks]]

\* Two ask for the same one, and the first has versions of its own.
Forwarded == Program([o \in {"root", "a", "b", "ld"} |->
    CASE o = "root" -> [Plain EXCEPT !.needed = <<"b", "ld", "a">>]
      [] o = "a" -> Versioned.files["a"]
      [] o = "b" -> [Asks EXCEPT !.versions = <<"base">>]
      [] o = "ld" -> Asks])

\* Programs that are given up, or nearly.
Broken(root, files) == Program([o \in {"root"} \cup DOMAIN files |->
    IF o = "root" THEN root ELSE files[o]])
NoSymbol(before) == [Broken(
    [Plain EXCEPT !.symbols = <<Wants("nobody", "strong"), Wants("gone", before)>>,
                  !.relocs = <<Reloc("abs", 2, 1), Reloc("abs", 1, 3)>>], NoData) EXCEPT !.memsize = 20]
\* A reference that is bound to a weak definition hides a missing symbol, too.
Loosely == Broken(
    [Plain EXCEPT !.needed = <<"b">>, !.size = 7,
                  !.symbols = <<Wants("f", "strong"), Wants("nobody", "strong")>>,
                  !.relocs = <<Reloc("abs", 1, 1), Reloc("abs", 1, 3), Reloc("abs", 2, 5)>>],
    [o \in {"b"} |-> [Plain EXCEPT
                  !.symbols = <<Func("f", 2, "weak")>>,
                  !.relocs = <<[Reloc("abs", 0, 1) EXCEPT !.addend = 6]>>]])
NoLibrary == Broken([Plain EXCEPT !.needed = <<"b">>], NoData)
TooLarge == Broken([Plain EXCEPT !.needed = <<"b">>], [o \in {"b"} |-> [Plain EXCEPT !.size = 30]])
TooOld == Broken([Plain EXCEPT !.needed = <<"a">>, !.wants = <<Want("a", "V9", 4, FALSE)>>],
                 [o \in {"a"} |-> Versioned.files["a"]])

MCPrograms ==
    {Static, Interposed, Versioned, Mixed, Forwarded, NoSymbol("strong"),
     NoSymbol("weak"), Loosely, NoLibrary, TooLarge, TooOld}

MCLibraryName ==
    [n \in {"a", "b", "ld", "/usr/b", "/lib/a"} |->
        CASE n = "/usr/b" -> "b" [] n = "/lib/a" -> "a" [] OTHER -> n]

\* No hint, aligned and unaligned ones; the same numbers serve munmap and brk.
MCHints == {0, 8, 12, 13, 16, 20, 26, 32}
\* Part of a page, one page, more than one page; and zero.
MCSizes == {0, 3, 4, 6}

ASSUME MCConditions == SumsFit(MemSize) /\ ProgramsFit /\ FilesFit /\ TablesFit
=============================================================================
