----------------------------- MODULE MCPeLoader -----------------------------
(***************************************************************************)
(* Three native core DLLs, two of which need each other, two PE DLLs that  *)
(* import each other under two spellings, and an application of each kind. *)
(***************************************************************************)
EXTENDS PeLoader

MCFiles == {"nt", "user", "gdi", "lib", "ext", "gone", "app", "native"}
MCElf == {"nt", "user", "gdi", "native"}
MCNames == {"NT", "USER", "GDI", "LIB", "Lib", "EXT", "GONE"}
MCFileOf == [n \in MCNames |->
    CASE n = "NT" -> "nt" [] n = "USER" -> "user" [] n = "GDI" -> "gdi"
      [] n \in {"LIB", "Lib"} -> "lib" [] n = "EXT" -> "ext" [] n = "GONE" -> "gone"]
MCFound == MCFiles \ {"gone"}
MCApps == {"app", "native"}
MCCoreDlls == <<"NT", "USER", "GDI">>

Import(dll, sym) == [dll |-> dll, sym |-> sym]

MCNeeds == [f \in MCFiles |->
    CASE f = "nt" -> <<Import("NT", "k")>>
      [] f = "user" -> <<Import("NT", "n"), Import("NT", "g")>>
      [] f = "gdi" -> <<Import("NT", "u")>>
      [] f = "lib" -> <<Import("EXT", "e"), Import("GDI", None)>>
      [] f = "ext" -> <<Import("Lib", "l")>>
      [] f = "app" -> <<Import("EXT", "e"), Import("GONE", None)>>
      [] f = "native" -> <<Import("NT", "d"), Import("NT", "l")>>
      [] OTHER -> <<>>]
MCExports == [f \in MCFiles |->
    CASE f = "nt" -> {"n"} [] f = "user" -> {"u"} [] f = "gdi" -> {"g"}
      [] f = "lib" -> {"l", "u"} [] f = "ext" -> {"e"} [] OTHER -> {}]
=============================================================================
