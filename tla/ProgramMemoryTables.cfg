\* Programs with two lookup tables, equal or not, read only.
CONSTANT Programs <- ChildrenWithTables
SPECIFICATION Spec
INVARIANT PreparationAccepts
