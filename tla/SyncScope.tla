----------------------------- MODULE SyncScope -----------------------------
(***************************************************************************)
(* What a session is about: the items the user ticks (sync_scope.rs), the  *)
(* directories each stands for and the files of them that count            *)
(* (peer/storage/roots.rs), and the tables a receiver consults for a       *)
(* record it is sent (root_for_kind, filter_for_kind, validate_kind,       *)
(* validate_format).  The five tables are kept apart in the code and have  *)
(* to agree.                                                               *)
(*                                                                         *)
(* Abstraction.  A path within a root is known by its class: what the      *)
(* filters tell apart.  Every path is in one class.                        *)
(***************************************************************************)
SyncItem == {"books", "koreader", "document_settings", "magicpaper",
             "wallpapers", "ai_keys"}

Class == {"native book", "native sidecar", "plain book", "png", "home.toml",
          "oracle.env", "nested oracle.env", "sdr", "transient", "cache", "other"}

\* Fault: the keys of MagicPaper are taken for configuration as well.
AcceptsKeys == [filter \in {"All", "Book", "XochitlDocument", "Wallpaper", "ExactHome",
                            "ExactOracle", "KoreaderData", "MagicpaperConfig"} |->
  IF filter = "ExactOracle" THEN {"oracle.env"} ELSE Class]

\* Filter::accepts.
Accepts == [
  All |-> Class,
  Book |-> {"native book", "plain book"},
  XochitlDocument |-> {"native book", "native sidecar"},
  Wallpaper |-> {"png"},
  ExactHome |-> {"home.toml"},
  ExactOracle |-> {"oracle.env"},
  KoreaderData |-> Class \ {"transient", "cache"},
  KoreaderSidecar |-> {"sdr"},
  MagicpaperConfig |-> Class \ {"oracle.env", "nested oracle.env"}]

Root(kind, dir, filter) == [kind |-> kind, dir |-> dir, filter |-> filter]

\* The directories of each item; the settings of documents have none.
RootsOf == [
  books |-> {Root("xochitl_document", "books", "XochitlDocument")},
  koreader |->
    {Root("koreader_data", ".local/share/koreader-for-remagic/data", "KoreaderData"),
     Root("koreader_legacy_data", ".local/share/remagic-koreader/data", "KoreaderData")},
  document_settings |-> {},
  magicpaper |->
    {Root("magicpaper_data", ".local/share/magicpaper", "All"),
     Root("magicpaper_config", ".config/magicpaper", "MagicpaperConfig"),
     Root("magicpaper_legacy_data", ".local/share/remagic-magicpaper", "All"),
     Root("magicpaper_legacy_config", ".config/remagic-magicpaper", "MagicpaperConfig"),
     Root("magicpaper_riddle_data", "riddle-data", "All"),
     Root("magicpaper_riddle_config", ".config/riddle", "MagicpaperConfig")},
  wallpapers |->
    {Root("wallpaper", "wallpapers", "Wallpaper"),
     Root("home_settings", ".config/remagic", "ExactHome")},
  ai_keys |->
    {Root("remagic_secret", ".config/remagic/secrets/providers", "All"),
     Root("magicpaper_oracle_secret", ".config/magicpaper", "ExactOracle")}]

RootsFor(selection) == UNION {RootsOf[item] : item \in selection}

KindInScope(kind, selection) == \E root \in RootsFor(selection) : root.kind = kind

\* Where a received record of a kind belongs, and what may be its path.
Place(dir, filter) == [dir |-> dir, filter |-> filter]
PlaceOfKind == [
  book |-> Place("books", "Book"),
  xochitl_document |-> Place("books", "XochitlDocument"),
  wallpaper |-> Place("wallpapers", "Wallpaper"),
  home_settings |-> Place(".config/remagic", "ExactHome"),
  koreader_data |-> Place(".local/share/koreader-for-remagic/data", "KoreaderData"),
  koreader_legacy_data |-> Place(".local/share/remagic-koreader/data", "KoreaderData"),
  koreader_sidecar |-> Place("books", "KoreaderSidecar"),
  magicpaper_data |-> Place(".local/share/magicpaper", "All"),
  magicpaper_config |-> Place(".config/magicpaper", "MagicpaperConfig"),
  magicpaper_legacy_data |-> Place(".local/share/remagic-magicpaper", "All"),
  magicpaper_legacy_config |-> Place(".config/remagic-magicpaper", "MagicpaperConfig"),
  magicpaper_riddle_data |-> Place("riddle-data", "All"),
  magicpaper_riddle_config |-> Place(".config/riddle", "MagicpaperConfig"),
  remagic_secret |-> Place(".config/remagic/secrets/providers", "All"),
  magicpaper_oracle_secret |-> Place(".config/magicpaper", "ExactOracle")]

\* The kinds the catalog stores.
ValidKind ==
  {"book", "xochitl_document", "wallpaper", "home_settings", "koreader_data",
   "koreader_legacy_data", "koreader_sidecar", "magicpaper_data",
   "magicpaper_config", "magicpaper_legacy_data", "magicpaper_legacy_config",
   "magicpaper_riddle_data", "magicpaper_riddle_config", "remagic_secret",
   "magicpaper_oracle_secret"}

\* The kinds whose content a receiver knows how to check.
KnownFormat ==
  {"book", "xochitl_document", "wallpaper"} \cup
  {"home_settings", "koreader_data", "koreader_legacy_data", "koreader_sidecar",
   "magicpaper_data", "magicpaper_config", "magicpaper_legacy_data",
   "magicpaper_legacy_config", "magicpaper_riddle_data",
   "magicpaper_riddle_config", "remagic_secret", "magicpaper_oracle_secret"}
-----------------------------------------------------------------------------
\* The part of a selection that concerns reading state.
ReadingScope(selection) ==
  (IF "koreader" \in selection THEN {"reading"} ELSE {})
    \cup (IF "document_settings" \in selection THEN {"document_settings"} ELSE {})


=============================================================================
