----------------------------- MODULE MCCliArgs -----------------------------
EXTENDS CliArgs

\* Options with a value, short and long, flags, an option of the README that
\* the program does not know, both subcommands and words that are neither.
MCWords == {"-u", "--password", "--ca-file", "-D", "-h", "--pwd",
            "auth", "deauth", "x", ""}

=============================================================================
