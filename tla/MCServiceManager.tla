-------------------------- MODULE MCServiceManager --------------------------
\* Tables for model checking: the one DriverLoadAll passes, and small ones of every shape.
EXTENDS ServiceManager, TLC

D(n, start, deps) == [name |-> n, start_type |-> start, dependencies |-> deps]

\* kernel/io/driver.c
DriverTable == <<
    D("Storage", BOOT_START, << >>),
    D("Serial", BOOT_START, << >>),
    D("Cdfs", SYSTEM_START, <<"Storage">>),
    D("Vga", SYSTEM_START, << >>),
    D("Keyboard", SYSTEM_START, <<"Serial">>),
    D("Framebuffer", SYSTEM_START, << >>),
    D("Mouse", SYSTEM_START, <<"Keyboard", "Framebuffer">>),
    D("Net", AUTO_START, << >>),
    D("HDA", SYSTEM_START, << >>),
    D("ES1371", SYSTEM_START, << >>),
    D("AC97", SYSTEM_START, << >>),
    D("SB16", SYSTEM_START, << >>),
    D("AudioService", AUTO_START, << >>),
    D("Win32k", AUTO_START, <<"Framebuffer", "Mouse">>) >>

\* Three services whose dependencies are any two names or fewer, with cycles, repeated
\* names in the table, and a name "X" no service has.
SmallNames == {"A", "B", "C", "X"}
SmallLists == {<< >>} \cup {<<n>> : n \in SmallNames}
              \cup {<<m, n>> : m, n \in {"A", "B", "C"}}

SmallTables ==
    {<<D("A", t[1], d1), D("B", t[2], d2), D(t[4], t[3], d3)>> :
        d1, d2, d3 \in SmallLists,
        t \in {<<AUTO_START, BOOT_START, DEMAND_START, "C">>,
               <<SYSTEM_START, SYSTEM_START, AUTO_START, "A">>}}

MCNames == SmallNames \cup {DriverTable[i].name : i \in DOMAIN DriverTable}
MCTables == SmallTables \cup {DriverTable}
=============================================================================
