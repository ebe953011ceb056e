----------------------------- MODULE MCSources ------------------------------
(***************************************************************************)
(* What the mutation tool reads before it runs, for TLC: code and what is  *)
(* not, the sites in it, bug files, the command line; and the script that  *)
(* hands the tool itself to other repositories.  They share no state, and  *)
(* each behaviour is of one of them.                                       *)
(***************************************************************************)
EXTENDS Naturals, Sequences

\* Texts of comments, literals with escapes, directives with continuations, and
\* raw strings; of operators that begin alike, numbers, defaults, comments.
MaskAlphabets == {{"/", "*", "nl", "quote"}, {"quote", "esc", "nl", "tick", "x"},
                  {"#", "esc", "nl", "sp", "x"}, {"R", "quote", "(", ")"}}
SiteAlphabets == {{"<", "=", " ", "x"}, {">", "=", " ", "-"}, {"&", "|", "=", "^"},
                  {"0", "1", ".", "u", "x"}, {"true", "=", ">", " "}, {"!", "=", "+", "*"},
                  {"~", "<", " ", "1", "/"}}

\* Bodies that hold lines like the fences, and sources for them.
MCBodies == {<<"a">>, <<"b">>, <<">>>">>, <<"===">>, <<"<<<", "a">>}
MCTexts == {<<"a", "b">>, <<"b", "a", "a">>}

\* What may be said with --lines (not given is the empty sequence) and --operators.
NoLines == <<>>
AllOps == {"tokens", "bitwise", "negation", "deletions"}
MCLineArgs == {NoLines, <<<<>>>>, <<<<2, 2>>>>, <<<<7, 9>>>>, <<<<1, 1>>, <<>>, <<2, 7>>>>, <<<<2, 1>>>>,
               <<<<1, 1>>, <<0>>>>}
MCOperatorArgs == {AllOps, {"deletions", "negation"}, {"tokens", "typos"}}

VARIABLE part   \* which of them a behaviour is of: constant

VARIABLES mask_text, mask_i, mask_at_line_start, mask_hidden
VARIABLES sites_src, sites_operator, sites_i, sites_sites
VARIABLES bugs_meant, bugs_original, bugs_intact, bugs_file, bugs_bugs, bugs_name,
          bugs_state, bugs_old, bugs_new, bugs_additive, bugs_raised, bugs_applied,
          bugs_mutants
VARIABLES set_given, set_phase, set_lines, set_named, set_sweep, set_mutants
VARIABLES sync_canon, sync_local, sync_head, sync_known, sync_origin, sync_pushed,
          sync_pr, sync_ask, sync_states, sync_todo, sync_step, sync_said, sync_spent

Mask == INSTANCE CodeMask WITH
          Alphabets <- MaskAlphabets, M <- 6,
          NamesEndInR <- FALSE, text <- mask_text, i <- mask_i,
          at_line_start <- mask_at_line_start, hidden <- mask_hidden
mask_vars ==
    <<mask_text, mask_i, mask_at_line_start, mask_hidden>>

Sites == INSTANCE MutationSites WITH
          Alphabets <- SiteAlphabets, M <- 5,
          Exponents <- FALSE, src <- sites_src, operator <- sites_operator,
          i <- sites_i, sites <- sites_sites
sites_vars ==
    <<sites_src, sites_operator, sites_i, sites_sites>>

Bugs == INSTANCE BugFile WITH
          Names <- {"n1", "n2"}, Bodies <- MCBodies,
          Texts <- MCTexts, B <- 2, meant <- bugs_meant, original <- bugs_original,
          intact <- bugs_intact, file <- bugs_file, bugs <- bugs_bugs,
          name <- bugs_name, state <- bugs_state, old <- bugs_old, new <- bugs_new,
          additive <- bugs_additive, raised <- bugs_raised, applied <- bugs_applied,
          mutants <- bugs_mutants
bugs_vars ==
    <<bugs_meant, bugs_original, bugs_intact, bugs_file, bugs_bugs,
      bugs_name, bugs_state, bugs_old, bugs_new, bugs_additive, bugs_raised,
      bugs_applied, bugs_mutants>>

Set == INSTANCE MutantSet WITH
          K <- 2,
          Shapes <- {"comment", "plain", "branch", "opens", "ends", "call", "closes"},
          LineArgs <- MCLineArgs, OperatorArgs <- MCOperatorArgs, Limits <- {0, 1, 3},
          given <- set_given, phase <- set_phase, lines <- set_lines,
          named <- set_named, sweep <- set_sweep, mutants <- set_mutants
set_vars ==
    <<set_given, set_phase, set_lines, set_named, set_sweep, set_mutants>>

Sync == INSTANCE CoreSync WITH
          S <- 2, Versions <- {1, 2},
          Texts <- {"x", "y"}, Changes <- 1, Runs <- 2, canon <- sync_canon,
          local <- sync_local, head <- sync_head, known <- sync_known,
          origin <- sync_origin, pushed <- sync_pushed, pr <- sync_pr, ask <- sync_ask,
          states <- sync_states, todo <- sync_todo, step <- sync_step,
          said <- sync_said, spent <- sync_spent
sync_vars ==
    <<sync_canon, sync_local, sync_head, sync_known, sync_origin,
      sync_pushed, sync_pr, sync_ask, sync_states, sync_todo, sync_step, sync_said,
      sync_spent>>

ASSUME Mask!MaskAssumption
ASSUME Sites!SitesAssumption
ASSUME Bugs!BugAssumption
ASSUME Set!SetAssumption
ASSUME Sync!SyncAssumption

\* The variables of the other parts.
mask_off ==
    /\ mask_text = "off" /\ mask_i = "off" /\ mask_at_line_start = "off"
    /\ mask_hidden = "off"
sites_off ==
    /\ sites_src = "off" /\ sites_operator = "off" /\ sites_i = "off"
    /\ sites_sites = "off"
bugs_off ==
    /\ bugs_meant = "off" /\ bugs_original = "off" /\ bugs_intact = "off"
    /\ bugs_file = "off" /\ bugs_bugs = "off" /\ bugs_name = "off"
    /\ bugs_state = "off" /\ bugs_old = "off" /\ bugs_new = "off"
    /\ bugs_additive = "off" /\ bugs_raised = "off" /\ bugs_applied = "off"
    /\ bugs_mutants = "off"
set_off ==
    /\ set_given = "off" /\ set_phase = "off" /\ set_lines = "off"
    /\ set_named = "off" /\ set_sweep = "off" /\ set_mutants = "off"
sync_off ==
    /\ sync_canon = "off" /\ sync_local = "off" /\ sync_head = "off"
    /\ sync_known = "off" /\ sync_origin = "off" /\ sync_pushed = "off"
    /\ sync_pr = "off" /\ sync_ask = "off" /\ sync_states = "off"
    /\ sync_todo = "off" /\ sync_step = "off" /\ sync_said = "off"
    /\ sync_spent = "off"

MCInit ==
    \/ part = "mask" /\ Mask!Init /\ sites_off /\ bugs_off /\ set_off /\ sync_off
    \/ part = "sites" /\ Sites!Init /\ mask_off /\ bugs_off /\ set_off /\ sync_off
    \/ part = "bugs" /\ Bugs!Init /\ mask_off /\ sites_off /\ set_off /\ sync_off
    \/ part = "set" /\ Set!Init /\ mask_off /\ sites_off /\ bugs_off /\ sync_off
    \/ part = "sync" /\ Sync!Init /\ mask_off /\ sites_off /\ bugs_off /\ set_off

MCNext ==
    /\ UNCHANGED part
    /\ \/ part = "mask" /\ Mask!Next /\ UNCHANGED <<sites_vars, bugs_vars, set_vars, sync_vars>>
       \/ part = "sites" /\ Sites!Next /\ UNCHANGED <<mask_vars, bugs_vars, set_vars, sync_vars>>
       \/ part = "bugs" /\ Bugs!Next /\ UNCHANGED <<mask_vars, sites_vars, set_vars, sync_vars>>
       \/ part = "set" /\ Set!Next /\ UNCHANGED <<mask_vars, sites_vars, bugs_vars, sync_vars>>
       \/ part = "sync" /\ Sync!Next /\ UNCHANGED <<mask_vars, sites_vars, bugs_vars, set_vars>>

MCvars == <<part, mask_vars, sites_vars, bugs_vars, set_vars, sync_vars>>
MCSpec == MCInit /\ [][MCNext]_MCvars

\* When the scan ends it has hidden what is not code, and nothing else, the
\* spellings CodeMask names set aside.  (code_mask.)
MaskIsCode == part = "mask" => Mask!TypeOK /\ Mask!MaskIsCode

\* The sites found are whole tokens of the language, and all of them, where no
\* number has a signed exponent.  (token_mutants.)
SitesAreTokens == part = "sites" => Sites!TypeOK /\ Sites!SitesAreTokens

\* A bug file is read as it was meant, or refused if it has a typo; a mutant is
\* never the source itself.  (parse_bug_file, bug_mutants.)
BugsAreAsMeant ==
    part = "bugs" => Bugs!TypeOK /\ Bugs!ReadsBack /\ Bugs!TyposAreRefused /\ Bugs!MutantsDiffer

\* Named bugs come first, the sweep is in file order, leaves out nothing it was
\* asked for and with --diff is of changed lines only.  (collect_mutants.)
SetIsWhatWasAsked ==
    part = "set" => Set!TypeOK /\ Set!NamedThenInFileOrder /\ Set!SweepsAllItWasAsked
                               /\ Set!DiffSweepsOnlyChanges

\* What is pushed to a sibling carries the hash of its core, and no uncommitted
\* work is replaced, wherever earlier runs stopped.  (sync-core.py, the hash that
\* lint-mutate-core.py compares.)
PushesAreWhole ==
    part = "sync" => Sync!TypeOK /\ Sync!PushedCarriesItsHash /\ Sync!NothingUncommittedIsReplaced
=============================================================================
