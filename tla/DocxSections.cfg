\* Every document of up to five paragraphs, with every choice of drafts.
CONSTANTS
    Kinds <- ParagraphKinds
    MaxLength = 5
    MaxSections = 4
    Shapes <- DraftShapes
SPECIFICATION Spec
INVARIANTS OrdersLineUp ParentEncloses ExportReadsBack 
CHECK_DEADLOCK FALSE
