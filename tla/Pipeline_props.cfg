\* Two props and more, cooked.
SPECIFICATION Spec
CONSTANTS
    DefaultSection = DefaultSection
    Integer <- Integers32
    Boolean <- Booleans
    Rank <- Order
    Files <- NamesOfFiles
    Cwd <- Home
    Binary = "linux_amd64"
    Dotted <- DotNames
    Lower <- LowerCase
    Addresses <- GoodAddresses
    NoGlobs = {"[a"}
    NoExprs = {"EXPR("}
    NoUrl = NoUrl
    Configs <- SomeConfigs
    Groups <- NamedGroups
INVARIANT
    AllPropsRun
\* The entry arrives, or there is none: the input was refused, or emits nothing.
CHECK_DEADLOCK FALSE
