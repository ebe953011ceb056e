\* Texts of up to six characters, files of up to two bugs or two lines, two
\* siblings; see MCSources.
SPECIFICATION MCSpec
INVARIANTS
    MaskIsCode
    SitesAreTokens
    BugsAreAsMeant
    SetIsWhatWasAsked
    PushesAreWhole
