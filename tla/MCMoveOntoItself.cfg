CONSTANTS
    here = here
    there = there
    Pastes <- OnePaste
    Tasks = {1, 2}
    InFolder <- Folder
    Places <- PastePlaces
    Source <- Sources
    Target <- OntoItself
    SameContext = {}
    SizeOf <- SameSizes
    Limit = 2
SPECIFICATION PasteSpec
INVARIANTS DeletesOnlyWhatIsCopied
\* The clipboard is pasted once.
CHECK_DEADLOCK FALSE
