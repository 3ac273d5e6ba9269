------------------------------ MODULE MCTsanParse -----------------------------
EXTENDS TsanParse

F(sym, mod, file, line) == [sym |-> sym, mod |-> mod, file |-> file, line |-> line]

Bump  == F("bump", "extension", "lib.rs", 10)
Load  == F("load", "extension", "lib.rs", 20)
Wrap  == F("wrap", "extension", "ffi/sys.rs", 5)
Cell  == F("borrow", "extension", "pyo3/pycell.rs", 7)
Drop  == F("drop", "extension", "lib.rs", 0)
Blank == F("inlined", "extension", "", 0)
Next0 == F("PyDict_Next", "libpython", "dictobject.c", 30)
Pop   == F("dict_pop", "libpython", "dictobject.c", 40)
Alloc == F("new_dict", "libpython", "dictobject.c", 50)
Atom  == F("_Py_atomic_load", "libpython", "pyatomic.h", 60)
Eval  == F("_PyEval_EvalFrame", "libpython", "ceval.c", 70)
Slice == F("bytearray_setslice", "libpython", "bytearrayobject.c", 80)
Fill  == F("fill", "lib", "numpy.c", 90)
\* A loop of a header that the extension and another library were built with.
Loop  == F("copy_loop", "extension", "vendor.h", 95)
Loop2 == F("copy_loop", "lib", "vendor.h", 95)
Move  == F("memmove", "interpreter", "", 0)

Stack(frames)   == [thread |-> "worker", frames |-> frames]
Refill(frames)  == [thread |-> "mutator", frames |-> frames]
Race(one, two)  == [kind |-> "data race", crash |-> FALSE, stacks |-> <<one, two>>]
Cut(one)        == [kind |-> "data race", crash |-> FALSE, stacks |-> <<one>>]
Segv(stacks)    == [kind |-> "SEGV", crash |-> TRUE, stacks |-> stacks]

BumpS == Stack(<<Bump, Eval>>)
LoadS == Stack(<<Move, Load, Eval>>)
FfiS  == Stack(<<Wrap, Bump, Eval>>)
CellS == Stack(<<Cell, Load, Eval>>)
DropS == Stack(<<Drop, Eval>>)
BlankS == Stack(<<Blank, Eval>>)
NextS == Stack(<<Next0, Bump, Eval>>)
PopS  == Stack(<<Pop, Eval, Bump>>)
AtomS == Stack(<<Atom, Load, Eval>>)
NewS  == Stack(<<Alloc, Eval>>)
SliceS == Refill(<<Slice, Eval>>)
FillS == Refill(<<Move, Fill, Eval>>)
GrowS == Refill(<<Move, F("array_resize", "lib", "numpy.c", 91), Eval>>)

\* Races of the extension's own code, with and without lines.
OwnRaces == {Race(one, two) : one, two \in {BumpS, LoadS, CellS, FfiS, DropS, BlankS}} \cup {Segv(<<>>)}

\* One of every owner, races with CPython and the harness among them.
AllOwners == {Race(BumpS, LoadS), Race(LoadS, BumpS), Race(NextS, PopS), Race(PopS, NextS),
              Race(NextS, AtomS), Race(AtomS, PopS), Race(PopS, NewS), Race(NewS, Stack(<<Eval>>)),
              Race(LoadS, SliceS), Race(FillS, BumpS), Race(GrowS, BumpS), Race(SliceS, Stack(<<Slice, Eval>>)),
              Race(Stack(<<Loop, Eval>>), SliceS), Race(Stack(<<Loop2, Eval>>), PopS), Cut(PopS), Segv(<<>>), Segv(<<PopS>>), Segv(<<NewS>>)}

AllRaces == OwnRaces \cup AllOwners \cup {[kind |-> Inversion, crash |-> FALSE, stacks |-> <<>>]}

\* A race of the extension, of the harness, with CPython, and a crash, cut anywhere.
CutRaces == {Race(LoadS, CellS), Race(FillS, BumpS), Race(NextS, PopS), Segv(<<PopS>>)}

AllParsed == AllRaces \cup UNION {Parts(r) : r \in CutRaces}

TheAllocation == <<Alloc, Bump>>
TheCreation   == <<Move, Load>>

Alphabet == <<"", "PyDict_Next", "_PyEval_EvalFrame", "_Py_atomic_load", "array_resize", "borrow", "bump",
              "bytearray_setslice", "copy_loop", "dict_pop", "drop", "fill", "inlined", "load", "memmove",
              "new_dict", "wrap">>
TheRank == [sym \in {Alphabet[i] : i \in DOMAIN Alphabet} |->
              CHOOSE i \in DOMAIN Alphabet : Alphabet[i] = sym]
=============================================================================
